---- MODULE Spec2Model ----
(***************************************************************************)
(* A model of the Tesla ESG sentiment pipeline                             *)
(* (src/tesla_esg_analysis.py, class TeslaESGSentimentAnalyzer).           *)
(*                                                                         *)
(* Numbers.  A float is an integer count of 1/Scale units (Scale = 10^4,   *)
(* so 2.0001 is 20001).  PosInf, NegInf and NaN are the three special      *)
(* floats; NaT is the missing timestamp.  A date is a day number, the      *)
(* days since 1970-01-01.                                                  *)
(*                                                                         *)
(* Text.  A str is a TLA+ string; only Len, SubSeq and \o are used on it.  *)
(*                                                                         *)
(* Cells.  A cell of the CSV file is <<"null">>, <<"num", n>> (n a float,  *)
(* or an integer for SQLDATE) or <<"str", s>>.                             *)
(***************************************************************************)
EXTENDS Integers, Sequences, FiniteSets, TLC

\* ------------------------------------------------------------------ bounds
\* Longest V2Tone text drawn for the tone parser.
MaxToneLen == 3
\* Most theme tokens in a list drawn for the categorizer.
MaxThemes == 2
\* Most rows of the input file drawn for the record cleaner.
MaxRows == 2
\* Most rows of the input file drawn for the whole pipeline.
MaxPipeRows == 2
\* Most runs of the pipeline over the same input and database.
MaxRuns == 2
MaxThemeTextLen == 5
MaxVolRows == 4
MaxFilterRows == 2
MaxSqlRows == 2

\* ------------------------------------------------------------------ floats
Scale == 10 * 10 * 10 * 10
PosInf == Scale * Scale * 10
NegInf == 0 - PosInf
NaN == PosInf + 1
NaT == NegInf - 1

Null == <<"null">>
Num(n) == <<"num", n>>
Str(s) == <<"str", s>>

\* pd.isna of a cell
isna(x) == x[1] = "null" \/ (x[1] = "num" /\ x[2] = NaN)

Abs(n) == IF n < 0 THEN 0 - n ELSE n

\* ------------------------------------------------------------------ text
CharAt(s, i) == SubSeq(s, i, i)

Digits == {"0", "1", "2", "3", "4", "5", "6", "7", "8", "9"}

DigitVal(c) ==
    CASE c = "0" -> 0 [] c = "1" -> 1 [] c = "2" -> 2 [] c = "3" -> 3
      [] c = "4" -> 4 [] c = "5" -> 5 [] c = "6" -> 6 [] c = "7" -> 7
      [] c = "8" -> 8 [] c = "9" -> 9

Whitespace == {" "}

RECURSIVE Pow10(_)
Pow10(n) == IF n = 0 THEN 1 ELSE 10 * Pow10(n - 1)

\* the decimal value of a string of digits ("" is 0)
RECURSIVE DecimalValue(_)
DecimalValue(s) ==
    IF Len(s) = 0 THEN 0
    ELSE 10 * DecimalValue(SubSeq(s, 1, Len(s) - 1)) + DigitVal(CharAt(s, Len(s)))

AllDigits(s) == \A i \in 1..Len(s) : CharAt(s, i) \in Digits

\* str.strip(): leading and trailing whitespace removed
RECURSIVE strip(_)
strip(s) ==
    IF Len(s) > 0 /\ CharAt(s, 1) \in Whitespace THEN strip(SubSeq(s, 2, Len(s)))
    ELSE IF Len(s) > 0 /\ CharAt(s, Len(s)) \in Whitespace
         THEN strip(SubSeq(s, 1, Len(s) - 1))
    ELSE s

\* str.split(sep) for a one-character sep: the pieces between the separators,
\* in order, empty pieces kept; a text without sep is one piece
RECURSIVE split(_, _)
split(s, sep) ==
    IF \A i \in 1..Len(s) : CharAt(s, i) # sep THEN <<s>>
    ELSE LET i == CHOOSE k \in 1..Len(s) :
                      /\ CharAt(s, k) = sep
                      /\ \A j \in 1..(k - 1) : CharAt(s, j) # sep
         IN  <<SubSeq(s, 1, i - 1)>> \o split(SubSeq(s, i + 1, Len(s)), sep)

\* `keyword in theme`: keyword occurs as a contiguous substring of theme
Contains(keyword, theme) ==
    \E i \in 1..(Len(theme) - Len(keyword) + 1) :
        SubSeq(theme, i, i + Len(keyword) - 1) = keyword

\* str.upper() over the ASCII letters
LowerLetters == "abcdefghijklmnopqrstuvwxyz"
UpperLetters == "ABCDEFGHIJKLMNOPQRSTUVWXYZ"

UpperChar(c) ==
    IF \E i \in 1..Len(LowerLetters) : CharAt(LowerLetters, i) = c
    THEN CharAt(UpperLetters, CHOOSE i \in 1..Len(LowerLetters) : CharAt(LowerLetters, i) = c)
    ELSE c

RECURSIVE upper(_)
upper(s) == IF s = "" THEN "" ELSE UpperChar(CharAt(s, 1)) \o upper(SubSeq(s, 2, Len(s)))

\* ------------------------------------------------------------------ float()
\* float() either returns a value or raises ValueError
Returned(v) == [raised |-> "", value |-> v]
Raised(e) == [raised |-> e, value |-> 0]

\* The unsigned part of a decimal literal: digits with at most one point and at
\* least one digit ("15", "1.5", ".5", "5.").
PointAt(u) == IF \E i \in 1..Len(u) : CharAt(u, i) = "."
              THEN CHOOSE i \in 1..Len(u) : CharAt(u, i) = "." /\ \A j \in 1..(i - 1) : CharAt(u, j) # "."
              ELSE Len(u) + 1

IntPart(u) == SubSeq(u, 1, PointAt(u) - 1)
FracPart(u) == SubSeq(u, PointAt(u) + 1, Len(u))

IsUnsignedLiteral(u) ==
    /\ AllDigits(IntPart(u))
    /\ AllDigits(FracPart(u))
    /\ Len(IntPart(u)) + Len(FracPart(u)) > 0

\* the number of decimals a float keeps: 1/Scale is the resolution of the model
Decimals == CHOOSE k \in 0..9 : Pow10(k) = Scale

\* the value of an unsigned literal; decimals beyond the resolution are dropped
UnsignedValue(u) ==
    LET frac == SubSeq(FracPart(u), 1, IF Len(FracPart(u)) < Decimals THEN Len(FracPart(u)) ELSE Decimals)
    IN  DecimalValue(IntPart(u)) * Scale
          + DecimalValue(frac) * Pow10(Decimals - Len(frac))

\* Python's float(text): surrounding whitespace is ignored, then an optional
\* sign and a decimal literal; anything else raises ValueError.
float(text) ==
    LET t == strip(text)
        signed == Len(t) > 0 /\ CharAt(t, 1) \in {"-", "+"}
        u == IF signed THEN SubSeq(t, 2, Len(t)) ELSE t
    IN  IF ~IsUnsignedLiteral(u) THEN Raised("ValueError")
        ELSE IF signed /\ CharAt(t, 1) = "-" THEN Returned(0 - UnsignedValue(u))
        ELSE Returned(UnsignedValue(u))

\* ------------------------------------------------------------------ tone parser
\* the parser reading the last field of the text instead of the first
ExtractSentimentLastField(tone_str) ==
    IF isna(tone_str) THEN NaN
    ELSE IF tone_str[1] = "num" THEN tone_str[2]
    ELSE LET parts == split(tone_str[2], ",")
             last == parts[Len(parts)]
             r == IF last # "" THEN float(last) ELSE Returned(NaN)
         IN  IF r.raised \in {"ValueError", "IndexError"} THEN NaN ELSE r.value

\* _extract_sentiment(tone_str): tone_str is a cell of the V2Tone column.  The
\* try block catches ValueError and IndexError; split never returns an empty
\* list, so parts[0] raises no IndexError.
_extract_sentiment(tone_str) ==
    IF isna(tone_str) THEN NaN
    ELSE IF tone_str[1] = "num" THEN tone_str[2]
    ELSE LET parts == split(tone_str[2], ",")
             r == IF parts[1] # "" THEN float(parts[1]) ELSE Returned(NaN)
         IN  IF r.raised \in {"ValueError", "IndexError"} THEN NaN ELSE r.value

\* ------------------------------------------------------------------ themes
\* _extract_themes(theme_string): theme_string is a cell of the V2Themes column
RECURSIVE StripAndDropEmpty(_)
StripAndDropEmpty(pieces) ==
    IF pieces = <<>> THEN <<>>
    ELSE IF strip(Head(pieces)) # ""
         THEN <<strip(Head(pieces))>> \o StripAndDropEmpty(Tail(pieces))
    ELSE StripAndDropEmpty(Tail(pieces))

\* str() of a cell that is not null: a text is itself (numeric cells do not
\* occur in the V2Themes column of the inputs drawn here)
str(cell) == cell[2]

\* a theme extraction that does not trim the pieces it keeps
ExtractThemesUntrimmed(theme_string) ==
    IF isna(theme_string) THEN <<>>
    ELSE SelectSeq(split(str(theme_string), ";"), LAMBDA piece : strip(piece) # "")

_extract_themes(theme_string) ==
    IF isna(theme_string) THEN <<>>
    ELSE StripAndDropEmpty(split(str(theme_string), ";"))

\* esg_categories_map: the categories in declaration order and their keywords
Categories ==
    <<"Environmental", "Social", "Governance", "Economic", "Technology", "Political">>

CategorySet == {Categories[i] : i \in 1..Len(Categories)}

esg_categories_map ==
    [c \in CategorySet |->
        CASE c = "Environmental" ->
               {"WB_1331_HEALTH_TECHNOLOGIES", "UNGP_FORESTS_RIVERS_OCEANS", "NATURAL_DISASTER",
                "TAX_ETHNICITY_CHINESE", "TAX_WORLDLANGUAGES_CHINESE"}
          [] c = "Social" ->
               {"WB_615_GENDER", "WB_924_VOICE_AND_AGENCY", "WB_621_HEALTH_NUTRITION_AND_POPULATION",
                "GENERAL_HEALTH", "MEDICAL", "TAX_DISEASE", "WB_926_POLITICAL_PARTICIPATION"}
          [] c = "Governance" ->
               {"WB_831_GOVERNANCE", "WB_832_ANTI_CORRUPTION", "WB_2019_ANTI_CORRUPTION_LEGISLATION",
                "WB_2020_BRIBERY_FRAUD_AND_COLLUSION", "CORRUPTION", "LEGISLATION", "EPU_POLICY",
                "WB_845_LEGAL_AND_REGULATORY_FRAMEWORK", "WB_696_PUBLIC_SECTOR_MANAGEMENT",
                "WB_969_CAPITAL_MARKETS_LAW_AND_REGULATION", "TAX_FNCACT_EXECUTIVES"}
          [] c = "Economic" ->
               {"ECON_STOCKMARKET", "TAX_ECON_PRICE", "WB_698_TRADE"}
          [] c = "Technology" ->
               {"WB_678_DIGITAL_GOVERNMENT", "WB_694_BROADCAST_AND_MEDIA",
                "WB_133_INFORMATION_AND_COMMUNICATION_TECHNOLOGIES", "SOC_EMERGINGTECH",
                "WB_652_ICT_APPLICATIONS", "WB_662_SOCIAL_MEDIA"}
          [] c = "Political" ->
               {"USPEC_POLITICS_GENERAL1", "TAX_POLITICAL_PARTY", "ELECTION", "TAX_FNCACT_PRESIDENT"}]

\* any(keyword in theme for keyword in keywords)
AnyKeywordIn(category, theme) ==
    \E keyword \in esg_categories_map[category] : Contains(keyword, theme)

ZeroCounts == [c \in CategorySet |-> 0]

\* The inner loop with no break: every category with a keyword in the theme is
\* incremented.
CountThemeNoBreak(categorized_counts, theme) ==
    [c \in CategorySet |->
        IF AnyKeywordIn(c, theme) THEN categorized_counts[c] + 1 ELSE categorized_counts[c]]

\* The inner loop over the categories for one theme: the first category, in
\* declaration order, with a keyword in the theme is incremented, then break.
CountTheme(categorized_counts, theme) ==
    IF \E i \in 1..Len(Categories) : AnyKeywordIn(Categories[i], theme)
    THEN LET first == CHOOSE i \in 1..Len(Categories) :
                          /\ AnyKeywordIn(Categories[i], theme)
                          /\ \A j \in 1..(i - 1) : ~AnyKeywordIn(Categories[j], theme)
         IN  [categorized_counts EXCEPT ![Categories[first]] = @ + 1]
    ELSE categorized_counts

RECURSIVE CountThemes(_, _)
CountThemes(categorized_counts, themes) ==
    IF themes = <<>> THEN categorized_counts
    ELSE CountThemes(CountTheme(categorized_counts, Head(themes)), Tail(themes))

_categorize_esg_themes(themes) == CountThemes(ZeroCounts, themes)

\* sum(counts.values())
SumCounts(counts) ==
    counts["Environmental"] + counts["Social"] + counts["Governance"]
      + counts["Economic"] + counts["Technology"] + counts["Political"]

\* dict accumulation: category_totals[category] += count
AddCounts(a, b) == [c \in CategorySet |-> a[c] + b[c]]

\* ------------------------------------------------------------------ calendar
\* A Timestamp at midnight is its day number, the days since 1970-01-01
\* (proleptic Gregorian calendar).
IsLeap(y) == (y % 4 = 0 /\ y % 100 # 0) \/ y % 400 = 0

DaysInMonth(y, m) ==
    IF m = 2 THEN (IF IsLeap(y) THEN 29 ELSE 28)
    ELSE IF m \in {4, 6, 9, 11} THEN 30 ELSE 31

DaysFromCivil(y, m, d) ==
    LET yy == IF m <= 2 THEN y - 1 ELSE y
        era == yy \div 400
        yoe == yy - era * 400
        mp == IF m > 2 THEN m - 3 ELSE m + 9
        doy == (153 * mp + 2) \div 5 + d - 1
        doe == yoe * 365 + yoe \div 4 - yoe \div 100 + doy
    IN  era * 146097 + doe - 719468

CivilFromDays(z) ==
    LET zz == z + 719468
        era == zz \div 146097
        doe == zz - era * 146097
        yoe == (doe - doe \div 1460 + doe \div 36524 - doe \div 146096) \div 365
        doy == doe - (365 * yoe + yoe \div 4 - yoe \div 100)
        mp == (5 * doy + 2) \div 153
        d == doy - (153 * mp + 2) \div 5 + 1
        m == IF mp < 10 THEN mp + 3 ELSE mp - 9
        y == yoe + era * 400 + (IF m <= 2 THEN 1 ELSE 0)
    IN  [year |-> y, month |-> m, day |-> d]

\* the greatest of a set of integers
MaxOf(S) == CHOOSE x \in S : \A y \in S : y <= x

DigitChars == <<"0", "1", "2", "3", "4", "5", "6", "7", "8", "9">>

\* n written with width digits, zero-padded
RECURSIVE Zfill(_, _)
Zfill(n, width) ==
    IF width = 0 THEN "" ELSE Zfill(n \div 10, width - 1) \o DigitChars[(n % 10) + 1]

\* Timestamp.strftime('%Y-%m-%d')
strftime(date) ==
    LET c == CivilFromDays(date)
    IN  Zfill(c.year, 4) \o "-" \o Zfill(c.month, 2) \o "-" \o Zfill(c.day, 2)

\* Series.dt.day_name()
DayNames == <<"Monday", "Tuesday", "Wednesday", "Thursday", "Friday", "Saturday", "Sunday">>
day_name(date) == DayNames[((date + 3) % 7) + 1]

\* Timestamp.min and Timestamp.max, as days
TimestampMinDay == DaysFromCivil(1677, 9, 22)
TimestampMaxDay == DaysFromCivil(2262, 4, 11)

\* str(n) of a non-negative integer, as its decimal digits
RECURSIVE IntDigits(_)
IntDigits(n) == IF n < 10 THEN <<n>> ELSE Append(IntDigits(n \div 10), n % 10)

\* len(str(n))
StrLenOfInt(n) == IF n < 0 THEN 1 + Len(IntDigits(0 - n)) ELSE Len(IntDigits(n))

\* the number written by digits from..to of ds
RECURSIVE DigitsValue(_, _, _)
DigitsValue(ds, from, to) ==
    IF to < from THEN 0 ELSE 10 * DigitsValue(ds, from, to - 1) + ds[to]

\* pd.to_datetime(n, format='%Y%m%d', errors='coerce') of one integer: str(n) is
\* matched against the regular expression of the format,
\*   %Y = \d\d\d\d   %m = 1[0-2]|0[1-9]|[1-9]   %d = 3[01]|[12]\d|0[1-9]|[1-9]
\* (the first alternative that lets the whole pattern match wins); text left
\* over after the match, no match, a day the month does not have or a date
\* outside the Timestamp range all coerce to NaT.
MonthMatches(ds, len) ==
    /\ 4 + len <= Len(ds)
    /\ IF len = 2 THEN DigitsValue(ds, 5, 6) \in 1..12 ELSE ds[5] \in 1..9

DayMatches(ds, at, len) ==
    /\ at + len - 1 <= Len(ds)
    /\ IF len = 2 THEN DigitsValue(ds, at, at + 1) \in 1..31 ELSE ds[at] \in 1..9

\* <<length of %m, length of %d>> in the order the regular expression tries them
SplitOrder == << <<2, 2>>, <<2, 1>>, <<1, 2>>, <<1, 1>> >>

SplitMatches(ds, k) ==
    /\ MonthMatches(ds, SplitOrder[k][1])
    /\ DayMatches(ds, 5 + SplitOrder[k][1], SplitOrder[k][2])

to_datetime(n) ==
    LET ds == IntDigits(n)
    IN  IF n < 0 \/ Len(ds) < 4 \/ ~\E k \in 1..4 : SplitMatches(ds, k) THEN NaT
        ELSE LET k == CHOOSE i \in 1..4 :
                          SplitMatches(ds, i) /\ \A j \in 1..(i - 1) : ~SplitMatches(ds, j)
                 ml == SplitOrder[k][1]
                 dl == SplitOrder[k][2]
                 y == DigitsValue(ds, 1, 4)
                 m == DigitsValue(ds, 5, 4 + ml)
                 d == DigitsValue(ds, 5 + ml, 4 + ml + dl)
             IN  IF 4 + ml + dl # Len(ds) THEN NaT
                 ELSE IF d > DaysInMonth(y, m) THEN NaT
                 ELSE IF DaysFromCivil(y, m, d) < TimestampMinDay THEN NaT
                 ELSE IF DaysFromCivil(y, m, d) > TimestampMaxDay THEN NaT
                 ELSE DaysFromCivil(y, m, d)

\* base_date = pd.to_datetime('2024-07-01')
base_date == DaysFromCivil(2024, 7, 1)

\* ------------------------------------------------------------------ data frames
\* A DataFrame is its column names, in order, and its rows, in order; a row
\* maps "index" (its label in the frame's index) and each column to a value.
EmptyFrame == [columns |-> <<>>, rows |-> <<>>]

Range(seq) == {seq[i] : i \in 1..Len(seq)}

HasColumn(frame, c) == c \in Range(frame.columns)

\* len(frame)
len(frame) == Len(frame.rows)

\* frame[c] = values (values[i] goes to the i-th row)
WithColumn(frame, c, values) ==
    [columns |-> IF HasColumn(frame, c) THEN frame.columns ELSE Append(frame.columns, c),
     rows |-> [i \in 1..Len(frame.rows) |-> (c :> values[i]) @@ frame.rows[i]]]

SeqsUpTo(S, n) == UNION {[1..k -> S] : k \in 0..n}

RECURSIVE SumSeq(_)
SumSeq(seq) == IF seq = <<>> THEN 0 ELSE Head(seq) + SumSeq(Tail(seq))

\* the columns of the input file, as filter_tesla_data.py writes them
RawColumns ==
    <<"SQLDATE", "V2Themes", "Organizations", "V2Tone",
      "SourceCollectionIdentifier", "DocumentIdentifier">>

RawRecord(sqldate, themes, tone, source) ==
    [SQLDATE |-> sqldate, V2Themes |-> themes, Organizations |-> Str("tesla inc"),
     V2Tone |-> tone, SourceCollectionIdentifier |-> Str(source),
     DocumentIdentifier |-> Str("https://" \o source \o "/article")]

\* the file without its SQLDATE column
WithoutSqldate(records) ==
    [i \in 1..Len(records) |->
        [c \in (DOMAIN records[i]) \ {"SQLDATE"} |-> records[i][c]]]

FileWith(records) == [found |-> TRUE, columns |-> RawColumns, records |-> records]

FileWithoutSqldate(records) ==
    [found |-> TRUE,
     columns |-> SelectSeq(RawColumns, LAMBDA c : c # "SQLDATE"),
     records |-> WithoutSqldate(records)]

NoFile == [found |-> FALSE, columns |-> <<>>, records |-> <<>>]

\* pd.read_csv: the rows of the file under a RangeIndex
read_csv(file) ==
    [columns |-> file.columns,
     rows |-> [i \in 1..Len(file.records) |-> ("index" :> (i - 1)) @@ file.records[i]]]

\* the dtype pandas infers for a column of cells
dtype(frame, c) ==
    IF len(frame) = 0 THEN "object"
    ELSE IF \A i \in 1..len(frame) : frame.rows[i][c][1] = "num" THEN "int64"
    ELSE IF \A i \in 1..len(frame) : frame.rows[i][c][1] \in {"num", "null"} THEN "float64"
    ELSE "object"

\* ------------------------------------------------------------------ record cleaner
\* the condition of line 199
SqldateIsYmd(df) ==
    /\ HasColumn(df, "SQLDATE")
    /\ dtype(df, "SQLDATE") = "int64"
    /\ StrLenOfInt(df.rows[1]["SQLDATE"][2]) = 8

\* every row is given the base date
SameBaseDates(n) == [i \in 1..n |-> base_date]

\* sequential dates that give each day to two rows
PairedDates(n) == [i \in 1..n |-> base_date + ((i - 1) \div 2)]

\* [base_date + pd.Timedelta(days=i) for i in range(len(self.df))]
SequentialDates(n) == [i \in 1..n |-> base_date + (i - 1)]

\* pd.to_datetime(self.df['SQLDATE'], format='%Y%m%d', errors='coerce')
ParsedDates(df) == [i \in 1..len(df) |-> to_datetime(df.rows[i]["SQLDATE"][2])]

\* The date column of lines 198-210.  Nothing in the try block raises on the
\* frames read_csv gives (an empty column is not int64, so iloc[0] is not
\* reached); the except branch assigns the same sequential dates as the else.
DateColumn(df) ==
    IF SqldateIsYmd(df) THEN ParsedDates(df) ELSE SequentialDates(len(df))

\* pd.cut(x, bins, labels, right): the label of the interval holding x
\* (bins[k], bins[k+1]] when right, [bins[k], bins[k+1]) when not; NaN and a
\* value in no interval get no label
NoLabel == "nan"

cut(x, bins, labels, right) ==
    LET holds(k) == IF right THEN bins[k] < x /\ x <= bins[k + 1]
                    ELSE bins[k] <= x /\ x < bins[k + 1]
    IN  IF x = NaN \/ ~\E k \in 1..Len(labels) : holds(k) THEN NoLabel
        ELSE labels[CHOOSE k \in 1..Len(labels) : holds(k)]

SentimentBins == <<NegInf, (0 - 2) * Scale, 0, 2 * Scale, PosInf>>
SentimentLabels == <<"Very Negative", "Negative", "Positive", "Very Positive">>

SentimentCategoryLeftClosed(score) == cut(score, SentimentBins, SentimentLabels, FALSE)

\* lines 226-229
SentimentCategory(score) == cut(score, SentimentBins, SentimentLabels, TRUE)

\* dropna on the sentiment score alone
DropNaScoreOnly(rows) == SelectSeq(rows, LAMBDA r : r["sentiment_score"] # NaN)

\* self.df.dropna(subset=['sentiment_score', 'date'])
DropNa(rows) ==
    SelectSeq(rows, LAMBDA r : r["sentiment_score"] # NaN /\ r["date"] # NaT)

\* lines 223-229: the derived columns of one cleaned row
Derived(r) ==
    ("year" :> CivilFromDays(r["date"]).year)
      @@ ("month" :> CivilFromDays(r["date"]).month)
      @@ ("day_of_week" :> day_name(r["date"]))
      @@ ("sentiment_category" :> SentimentCategory(r["sentiment_score"]))
      @@ r

DerivedColumns == <<"year", "month", "day_of_week", "sentiment_category">>

\* clean_and_preprocess_data on self.df: the new self.df and self.df_clean, the
\* two sizes logged, and the exception that leaves the method, if any.  On a
\* frame without rows the date column is assigned an empty list, which is not
\* datetime-like, and the .dt accessor of line 223 raises AttributeError.
clean_and_preprocess_data(df0) ==
    LET dated == WithColumn(df0, "date", DateColumn(df0))
        scored == WithColumn(dated, "sentiment_score",
                      [i \in 1..len(dated) |-> _extract_sentiment(dated.rows[i]["V2Tone"])])
        kept == DropNa(scored.rows)
    IN  IF len(df0) = 0
        THEN [df |-> scored,
              df_clean |-> [columns |-> scored.columns, rows |-> <<>>],
              original_size |-> 0, raised |-> "AttributeError"]
        ELSE [df |-> scored,
              df_clean |-> [columns |-> scored.columns \o DerivedColumns,
                            rows |-> [i \in 1..Len(kept) |-> Derived(kept[i])]],
              original_size |-> len(df0), raised |-> ""]

\* ------------------------------------------------------------------ aggregator
\* a / b rounded to the nearest integer, halves to the even one (b > 0)
RoundHalfEven(a, b) ==
    LET f == a \div b
        r == a - f * b
    IN  IF 2 * r < b THEN f
        ELSE IF 2 * r > b THEN f + 1
        ELSE IF f % 2 = 0 THEN f ELSE f + 1

\* the largest r with r * r <= n (n >= 0)
RECURSIVE SqrtBetween(_, _, _)
SqrtBetween(n, lo, hi) ==
    IF lo >= hi THEN lo
    ELSE LET mid == (lo + hi + 1) \div 2
         IN  IF mid * mid <= n THEN SqrtBetween(n, mid, hi) ELSE SqrtBetween(n, lo, mid - 1)

ISqrt(n) == SqrtBetween(n, 0, 46340)

\* the number of 1/1000 in a float unit: .round(3) keeps multiples of it
Milli == Scale \div 1000

\* Series.mean().round(3): NaN for no value, an infinity when a value is
\* infinite (NaN when both infinities occur)
MeanRound3(xs) ==
    IF Len(xs) = 0 THEN NaN
    ELSE IF \E i \in 1..Len(xs) : xs[i] \in {PosInf, NegInf}
         THEN IF \A i \in 1..Len(xs) : xs[i] # NegInf THEN PosInf
              ELSE IF \A i \in 1..Len(xs) : xs[i] # PosInf THEN NegInf
              ELSE NaN
    ELSE Milli * RoundHalfEven(SumSeq(xs), Milli * Len(xs))

\* Series.std().round(3), the sample standard deviation (ddof = 1): NaN for
\* fewer than two values and when a value is infinite (inf - inf); computed
\* on deviations taken to 1/1000
StdRound3(xs) ==
    LET n == Len(xs)
        dev == [i \in 1..n |-> (n * xs[i] - SumSeq(xs)) \div Milli]
        ss == SumSeq([i \in 1..n |-> dev[i] * dev[i]])
    IN  IF n < 2 \/ (\E i \in 1..n : xs[i] \in {PosInf, NegInf}) THEN NaN
        ELSE Milli * ((ISqrt((4 * ss) \div (n * n * (n - 1))) + 1) \div 2)

\* the distinct values of a set of integers in ascending order
RECURSIVE Ascending(_)
Ascending(S) ==
    IF S = {} THEN <<>>
    ELSE LET m == CHOOSE x \in S : \A y \in S : x <= y
         IN  <<m>> \o Ascending(S \ {m})

ColumnValues(frame, c) == [i \in 1..len(frame) |-> frame.rows[i][c]]

DailyColumns == <<"date", "avg_sentiment", "article_count", "sentiment_std">>

\* lines 244-249: groupby('date').agg(mean, count, std).round(3).reset_index()
\* (count is the number of non-null DocumentIdentifier values of the group)
DailySentiment(clean) ==
    LET dates == Ascending({clean.rows[i]["date"] : i \in 1..len(clean)})
        group(d) == SelectSeq(clean.rows, LAMBDA r : r["date"] = d)
        scores(d) == [i \in 1..Len(group(d)) |-> group(d)[i]["sentiment_score"]]
    IN  [columns |-> DailyColumns,
         rows |-> [k \in 1..Len(dates) |->
                      [index |-> k - 1,
                       date |-> dates[k],
                       avg_sentiment |-> MeanRound3(scores(dates[k])),
                       article_count |->
                           Len(SelectSeq(group(dates[k]),
                                         LAMBDA r : ~isna(r["DocumentIdentifier"]))),
                       sentiment_std |-> StdRound3(scores(dates[k]))]]]

\* lines 313-332 and 668-673: the category counts of every cleaned row, summed
RECURSIVE CategoryTotals(_)
CategoryTotals(rows) ==
    IF rows = <<>> THEN ZeroCounts
    ELSE AddCounts(_categorize_esg_themes(_extract_themes(Head(rows)["V2Themes"])),
                   CategoryTotals(Tail(rows)))

\* ------------------------------------------------------------------ storage
\* A table of the SQLite file: absent, or its columns and rows.
NoTable == [exists |-> FALSE, columns |-> <<>>, rows |-> <<>>]

EmptyDatabase == [tesla_esg |-> NoTable, daily_sentiment |-> NoTable]

\* the rows DataFrame.to_sql(index=False) writes: the columns, not the index
SqlRows(frame) ==
    [i \in 1..len(frame) |-> [c \in Range(frame.columns) |-> frame.rows[i][c]]]

\* to_sql with if_exists='append': the rows are added to those of the table
ToSqlAppend(table, frame) ==
    IF table.exists
    THEN [exists |-> TRUE, columns |-> table.columns, rows |-> table.rows \o SqlRows(frame)]
    ELSE [exists |-> TRUE, columns |-> frame.columns, rows |-> SqlRows(frame)]

\* to_sql(..., if_exists='replace', index=False): the table is dropped, created
\* with the columns of the frame and filled with its rows
ToSql(table, frame) ==
    [exists |-> TRUE, columns |-> frame.columns, rows |-> SqlRows(frame)]

\* what can go wrong in store_to_database.  sqlite3.connect and the INSERTs
\* raise sqlite3.Error; the statements pandas runs through its execute (DROP,
\* CREATE, the queries of read_sql_query) raise pandas.errors.DatabaseError,
\* which is an OSError and no sqlite3.Error.
StoreFaults ==
    {"none", "connect", "create tesla_esg", "insert tesla_esg",
     "create daily_sentiment", "insert daily_sentiment", "verify"}

SqlFaults == {"none", "connect", "query"}

IsSqliteError(e) == e = "sqlite3.Error"

\* the handle is closed only when the try block ended without an exception
CloseUnlessRaised(conn_in_try, exception) ==
    IF exception = "" THEN "None" ELSE conn_in_try

\* finally: if self.conn: self.conn.close(); self.conn = None
\* (lines 389-392, 483-486): self.conn after the finally block
Finally(conn_in_try, exception) == "None"

\* store_to_database (lines 375-392) under a fault: the database, the handle
\* and the count of open connections it leaves, what it logged (success is
\* logged at line 379, before the verification query), and the exception that
\* leaves the method
store_to_database(db0, clean, daily, fault) ==
    LET connected == fault # "connect"
        conn_in_try == IF connected THEN "Connection" ELSE "None"
        exception ==
            CASE fault \in {"connect", "insert tesla_esg", "insert daily_sentiment"} ->
                     "sqlite3.Error"
              [] fault \in {"create tesla_esg", "create daily_sentiment", "verify"} ->
                     "pandas.errors.DatabaseError"
              [] OTHER -> ""
        tesla_esg ==
            CASE fault = "connect" -> db0.tesla_esg
              [] fault = "create tesla_esg" -> NoTable
              [] fault = "insert tesla_esg" ->
                     [ToSql(db0.tesla_esg, clean) EXCEPT !.rows = <<>>]
              [] OTHER -> ToSql(db0.tesla_esg, clean)
        daily_table ==
            CASE fault \in {"connect", "create tesla_esg", "insert tesla_esg"} ->
                     db0.daily_sentiment
              [] fault = "create daily_sentiment" -> NoTable
              [] fault = "insert daily_sentiment" ->
                     [ToSql(db0.daily_sentiment, daily) EXCEPT !.rows = <<>>]
              [] OTHER -> ToSql(db0.daily_sentiment, daily)
        conn_after == Finally(conn_in_try, exception)
    IN  [db |-> [tesla_esg |-> tesla_esg, daily_sentiment |-> daily_table],
         conn |-> conn_after,
         open |-> IF conn_after = "None" THEN 0 ELSE 1,
         logged |-> IF exception = "" \/ fault = "verify" THEN "stored"
                    ELSE IF IsSqliteError(exception) THEN "error logged" ELSE "",
         raised |-> IF exception = "" \/ IsSqliteError(exception) THEN "" ELSE exception]

\* the result of Query 1 before the query has run
NotQueried == [queried |-> FALSE, selected |-> {}, rows |-> <<>>]

\* the text SQLite holds for a date of the frame: to_sql hands the Timestamp
\* to sqlite3, which stores datetime.isoformat(" ")
isoformat(date) == strftime(date) \o " 00:00:00"

\* the byte of a character of a date text
CharCode(c) ==
    CASE c = " " -> 32
      [] c = "-" -> 45
      [] c = ":" -> 58
      [] OTHER -> 48 + DigitVal(c)

\* a >= b for two TEXT values under SQLite's BINARY collation: the first byte
\* that differs decides, and of a text and its prefix the longer is greater
TextGreaterOrEqual(a, b) ==
    LET common == IF Len(a) < Len(b) THEN Len(a) ELSE Len(b)
        differ == {k \in 1..common : CharAt(a, k) # CharAt(b, k)}
        first == CHOOSE k \in differ : \A j \in differ : k <= j
    IN  IF differ = {} THEN Len(a) >= Len(b)
        ELSE CharCode(CharAt(a, first)) > CharCode(CharAt(b, first))

\* a WHERE clause that counts the 30 days back from the latest date of the table
WhereLastDaysOfData(table, today) ==
    LET latest == MaxOf({table.rows[i]["date"] : i \in 1..Len(table.rows)})
    IN  {i \in 1..Len(table.rows) :
            TextGreaterOrEqual(isoformat(table.rows[i]["date"]), strftime(latest - 30))}

\* line 418: WHERE date >= date('now', '-30 days'), as the rowids it selects;
\* date('now', '-30 days') is the text YYYY-MM-DD of the day 30 days before today
WhereLast30Days(table, today) ==
    {i \in 1..Len(table.rows) :
        TextGreaterOrEqual(isoformat(table.rows[i]["date"]), strftime(today - 30))}

\* Query 1 (lines 411-423): the rows the WHERE clause selected, grouped by
\* date, the latest date first, at most 10 groups; of the columns of a group
\* the date and the COUNT(*)
Query1(table, selected) ==
    LET dates == Ascending({table.rows[i]["date"] : i \in selected})
        shown == IF Len(dates) < 10 THEN Len(dates) ELSE 10
    IN  [queried |-> TRUE,
         selected |-> selected,
         rows |-> [k \in 1..shown |->
                      [date |-> dates[Len(dates) - k + 1],
                       article_count |->
                           Cardinality({i \in selected :
                               table.rows[i]["date"] = dates[Len(dates) - k + 1]})]]]

\* perform_sql_analysis (lines 402-486) under a fault; every query reads
\* tesla_esg and fails when the table is not there
perform_sql_analysis(db0, fault, today) ==
    LET connected == fault # "connect"
        conn_in_try == IF connected THEN "Connection" ELSE "None"
        exception ==
            IF ~connected THEN "sqlite3.Error"
            ELSE IF fault = "query" \/ ~db0.tesla_esg.exists THEN "pandas.errors.DatabaseError"
            ELSE ""
        conn_after == Finally(conn_in_try, exception)
    IN  [conn |-> conn_after,
         open |-> IF conn_after = "None" THEN 0 ELSE 1,
         daily_avg |-> IF exception = ""
                       THEN Query1(db0.tesla_esg, WhereLast30Days(db0.tesla_esg, today))
                       ELSE NotQueried,
         logged |-> IF exception = "" THEN "queried"
                    ELSE IF IsSqliteError(exception) THEN "error logged" ELSE "",
         raised |-> IF exception = "" \/ IsSqliteError(exception) THEN "" ELSE exception]

\* ------------------------------------------------------------------ BI export
\* dt.isocalendar().week: the week of the Thursday of the date's week
iso_week(date) ==
    LET thursday == date - ((date + 3) % 7) + 3
    IN  (thursday - DaysFromCivil(CivilFromDays(thursday).year, 1, 1)) \div 7 + 1

\* dt.quarter
quarter(date) == (CivilFromDays(date).month - 1) \div 3 + 1

\* the orders sort_values('date') can leave the rows in: ascending by date; the
\* default sort is not stable, so rows of one date may come in any order
DateOrders(rows) ==
    {order \in Permutations(1..Len(rows)) :
        \A i, j \in 1..Len(rows) : i < j => rows[order[i]]["date"] <= rows[order[j]]["date"]}

\* rolling(window, min_periods=1).mean() at position p: the mean of the last
\* `window` values up to p, fewer at the start, as their sum and their number
RollingMean(values, p, window) ==
    LET first == IF p > window THEN p - window + 1 ELSE 1
        last == SubSeq(values, first, p)
    IN  [sum |-> SumSeq(last), count |-> Len(last)]

ExportColumns ==
    <<"sentiment_abs", "is_negative", "is_positive", "week_of_year", "quarter", "date_str",
      "sentiment_7d_avg", "sentiment_30d_avg">>

\* lines 497-511: the copy of the cleaned frame with the added columns, sorted
\* by date in the given order, as to_csv(index=False) writes it
ExportFrame(clean, order) ==
    LET sorted == [k \in 1..len(clean) |-> clean.rows[order[k]]]
        scores == [k \in 1..len(clean) |-> sorted[k]["sentiment_score"]]
    IN  [written |-> TRUE,
         columns |->
             clean.columns \o SelectSeq(ExportColumns, LAMBDA c : ~HasColumn(clean, c)),
         rows |-> [k \in 1..len(clean) |->
                      [c \in Range(ExportColumns) |->
                          CASE c = "sentiment_abs" -> Abs(scores[k])
                            [] c = "is_negative" -> scores[k] < 0
                            [] c = "is_positive" -> scores[k] > 0
                            [] c = "week_of_year" -> iso_week(sorted[k]["date"])
                            [] c = "quarter" -> quarter(sorted[k]["date"])
                            [] c = "date_str" -> strftime(sorted[k]["date"])
                            [] c = "sentiment_7d_avg" -> RollingMean(scores, k, 7)
                            [] c = "sentiment_30d_avg" -> RollingMean(scores, k, 30)]
                        @@ [c \in Range(clean.columns) |-> sorted[k][c]]]]

\* the first position of the least (greatest) value: Series.idxmin, idxmax
FirstArgMin(values) ==
    CHOOSE i \in 1..Len(values) :
        /\ \A j \in 1..Len(values) : values[i] <= values[j]
        /\ \A j \in 1..(i - 1) : values[j] > values[i]

FirstArgMax(values) ==
    CHOOSE i \in 1..Len(values) :
        /\ \A j \in 1..Len(values) : values[i] >= values[j]
        /\ \A j \in 1..(i - 1) : values[j] < values[i]

MinOf(S) == CHOOSE x \in S : \A y \in S : x <= y

\* round(count / total * 100, 2), in 1/100 of a percent
PercentRound2(count, total) == RoundHalfEven(count * 100 * 100, total)

\* lines 518-548, of a frame with rows: the metrics of the summary statistics
\* file (the median, the standard deviation and the most common source are
\* written too and are not kept here)
SummaryStats(clean, daily) ==
    LET dates == {clean.rows[i]["date"] : i \in 1..len(clean)}
        scores == ColumnValues(clean, "sentiment_score")
        averages == ColumnValues(daily, "avg_sentiment")
    IN  [written |-> TRUE,
         total_articles |-> len(clean),
         date_range_start |-> strftime(MinOf(dates)),
         date_range_end |-> strftime(CHOOSE x \in dates : \A y \in dates : y <= x),
         average_sentiment |-> MeanRound3(scores),
         negative_pct |->
             PercentRound2(Len(SelectSeq(scores, LAMBDA x : x < 0)), len(clean)),
         positive_pct |->
             PercentRound2(Len(SelectSeq(scores, LAMBDA x : x > 0)), len(clean)),
         most_negative_day |->
             IF len(daily) = 0 THEN "N/A"
             ELSE strftime(daily.rows[FirstArgMin(averages)]["date"]),
         most_positive_day |->
             IF len(daily) = 0 THEN "N/A"
             ELSE strftime(daily.rows[FirstArgMax(averages)]["date"])]

\* export_data_for_bi (lines 496-562): the two files it leaves and what it
\* logs.  The cleaned file is written at line 511; with no row, min() of the
\* dates is NaT, its strftime at line 534 raises ValueError, the except clause
\* logs it and the statistics file is not written.
export_data_for_bi(clean, daily, order, stats_before) ==
    [bi_file |-> ExportFrame(clean, order),
     stats_file |-> IF len(clean) = 0 THEN stats_before ELSE SummaryStats(clean, daily),
     logged |-> IF len(clean) = 0 THEN "error logged" ELSE "exported"]

\* ------------------------------------------------------------------ volatility
\* the month idxmax gives when no std is defined (NaN): a month no record has
NoMonth == 0

\* dt.to_period('M') as the number YYYYMM
to_period(date) == CivilFromDays(date).year * 100 + CivilFromDays(date).month

\* the sample variance (ddof = 1) of two or more floats as a fraction; the
\* floats are taken to 1/1000
Variance(xs) ==
    LET n == Len(xs)
        ms == [i \in 1..n |-> xs[i] \div Milli]
    IN  [num |-> n * SumSeq([i \in 1..n |-> ms[i] * ms[i]]) - SumSeq(ms) * SumSeq(ms),
         den |-> n * (n - 1)]

Less(a, b) == a.num * b.den < b.num * a.den

\* lines 595: groupby(to_period('M'))['sentiment_score'].std(): the months in
\* ascending order, each with its scores; std is NaN for a month of one score
monthly_volatility(clean) ==
    LET months == Ascending({to_period(clean.rows[i]["date"]) : i \in 1..len(clean)})
        group(m) == SelectSeq(clean.rows, LAMBDA r : to_period(r["date"]) = m)
    IN  [k \in 1..Len(months) |->
            [month |-> months[k],
             scores |-> [i \in 1..Len(group(months[k])) |->
                            group(months[k])[i]["sentiment_score"]]]]

HasStd(entry) == Len(entry.scores) >= 2

\* the last month of the extreme std, where idxmax and idxmin give the first
LastExtreme(monthly, greatest) ==
    LET defined == {k \in 1..Len(monthly) : HasStd(monthly[k])}
        before(j, k) == IF greatest
                        THEN Less(Variance(monthly[j].scores), Variance(monthly[k].scores))
                        ELSE Less(Variance(monthly[k].scores), Variance(monthly[j].scores))
    IN  IF defined = {} THEN NoMonth
        ELSE monthly[CHOOSE k \in defined :
                         /\ \A j \in defined \ {k} : ~before(k, j)
                         /\ \A j \in defined : j > k => before(j, k)].month

\* Series.idxmax() (greatest) and Series.idxmin() of the monthly std: NaN is
\* skipped, the first month of the extreme value is returned, and with no
\* defined value the result is NaN (no month)
FirstExtreme(monthly, greatest) ==
    LET defined == {k \in 1..Len(monthly) : HasStd(monthly[k])}
        before(j, k) == IF greatest
                        THEN Less(Variance(monthly[j].scores), Variance(monthly[k].scores))
                        ELSE Less(Variance(monthly[k].scores), Variance(monthly[j].scores))
    IN  IF defined = {} THEN NoMonth
        ELSE monthly[CHOOSE k \in defined :
                         /\ \A j \in defined \ {k} : ~before(k, j)
                         /\ \A j \in defined : j < k => before(j, k)].month

\* lines 593-603: what is logged of the monthly volatility
VolatilityReport(clean) ==
    LET monthly == monthly_volatility(clean)
    IN  IF Len(monthly) = 0
        THEN [logged |-> "No monthly volatility data available", months |-> 0,
              highest |-> NoMonth, lowest |-> NoMonth]
        ELSE [logged |-> "volatility", months |-> Len(monthly),
              highest |-> FirstExtreme(monthly, TRUE),
              lowest |-> FirstExtreme(monthly, FALSE)]

\* ------------------------------------------------------------------ summary
\* the recommendation blocks of lines 679-709, in the order of the code
RecommendationBlocks == <<"Governance", "Economic", "Social", "Environmental">>

\* lines 679, 687, 695, 703: a block is logged when the total of its category
\* is positive
Recommendations(totals) == SelectSeq(RecommendationBlocks, LAMBDA c : totals[c] > 0)

\* a mean kept exact, as the sum and the number of the values
Mean(xs) == [sum |-> SumSeq(xs), count |-> Len(xs)]

\* a recent window that leaves out the rows of the latest date
Recent30dBeforeLatest(clean) ==
    LET max_date == MaxOf({clean.rows[i]["date"] : i \in 1..len(clean)})
    IN  SelectSeq(clean.rows, LAMBDA r : r["date"] >= max_date - 30 /\ r["date"] < max_date)

\* line 649: recent_30d, the rows dated max_date - timedelta(days=30) or later
recent_30d(clean) ==
    LET max_date == MaxOf({clean.rows[i]["date"] : i \in 1..len(clean)})
    IN  SelectSeq(clean.rows, LAMBDA r : r["date"] >= max_date - 30)

\* line 650: the mean of the scores of recent_30d; avg_sentiment, the mean of
\* all scores, when recent_30d is empty
RecentSentiment(clean) ==
    LET recent == [i \in 1..Len(recent_30d(clean)) |-> recent_30d(clean)[i]["sentiment_score"]]
    IN  IF Len(recent) > 0
        THEN Mean(recent)
        ELSE Mean(ColumnValues(clean, "sentiment_score"))

\* a trend that reports "improving" on a tie as well
TrendDirectionTiesImprove(clean) ==
    LET recent == RecentSentiment(clean)
        all == Mean(ColumnValues(clean, "sentiment_score"))
    IN  IF recent.sum * all.count >= all.sum * recent.count
        THEN "improving"
        ELSE "declining"

\* line 652: the recent mean against the mean of all rows, compared as fractions
TrendDirection(clean) ==
    LET recent == RecentSentiment(clean)
        all == Mean(ColumnValues(clean, "sentiment_score"))
    IN  IF recent.sum * all.count > all.sum * recent.count
        THEN "improving"
        ELSE "declining"

\* line 653: abs(recent_sentiment - avg_sentiment), as a fraction
TrendMagnitude(clean) ==
    LET recent == RecentSentiment(clean)
        all == Mean(ColumnValues(clean, "sentiment_score"))
    IN  [num |-> Abs(recent.sum * all.count - all.sum * recent.count),
         den |-> recent.count * all.count]

\* a summary that computes its figures without looking at the size of the dataset
SummaryWithoutEmptyCheck(clean) ==
    [logged |-> "summary",
     total_articles |-> len(clean),
     recent_sentiment |-> Mean(ColumnValues(clean, "sentiment_score")),
     recent_30d_empty |-> FALSE,
     trend_direction |-> "declining",
     trend_magnitude |-> [num |-> 0, den |-> len(clean) * len(clean)],
     category_totals |-> CategoryTotals(clean.rows),
     recommendations |-> Recommendations(CategoryTotals(clean.rows))]

\* generate_executive_summary (lines 620-709): what it logs
generate_executive_summary(clean) ==
    IF len(clean) = 0
    THEN [logged |-> "No data available", total_articles |-> 0,
          recent_sentiment |-> Mean(<<>>), recent_30d_empty |-> FALSE,
          trend_direction |-> "",
          trend_magnitude |-> [num |-> 0, den |-> 0],
          category_totals |-> ZeroCounts, recommendations |-> <<>>]
    ELSE [logged |-> "summary",
          total_articles |-> len(clean),
          recent_sentiment |-> RecentSentiment(clean),
          recent_30d_empty |-> Len(recent_30d(clean)) = 0,
          trend_direction |-> TrendDirection(clean),
          trend_magnitude |-> TrendMagnitude(clean),
          category_totals |-> CategoryTotals(clean.rows),
          recommendations |-> Recommendations(CategoryTotals(clean.rows))]

\* ------------------------------------------------------------------ sample data
\* the frame _load_data builds when the file is not found (lines 62-105)
sample_data ==
    <<
      [SQLDATE |-> Num(1),
       V2Themes |-> Str("LEGISLATION;EPU_POLICY;EPU_POLICY_LAW;WB_845_LEGAL_AND_REGULATORY_FRAMEWORK;WB_696_PUBLIC_SECTOR_MANAGEMENT;WB_969_CAPITAL_MARKETS_LAW_AND_REGULATION;WB_853_FINANCIAL_LAWS_AND_REGULATIONS;TRIAL;TAX_FNCACT;TAX_FNCACT_EXECUTIVES;APPOINTMENT;CORRUPTION;WB_2019_ANTI_CORRUPTION_LEGISLATION;WB_831_GOVERNANCE;WB_832_ANTI_CORRUPTION;WB_2020_BRIBERY_FRAUD_AND_COLLUSION;WB_678_DIGITAL_GOVERNMENT;WB_694_BROADCAST_AND_MEDIA;WB_133_INFORMATION_AND_COMMUNICATION_TECHNOLOGIES;MEDIA_SOCIAL;WB_652_ICT_APPLICATIONS;WB_662_SOCIAL_MEDIA;WB_658_ENTERPRISE_APPLICATIONS;TRAFFIC;ECON_STOCKMARKET;TAX_ECON_PRICE;TAX_FNCACT_ANALYST;WB_962_INTERNATIONAL_LAW;TAX_FNCACT_ATTORNEYS;TAX_FNCACT_DIRECTORS;WB_1331_HEALTH_TECHNOLOGIES;WB_1350_PHARMACEUTICALS;WB_621_HEALTH_NUTRITION_AND_POPULATION;TAX_FNCACT_ATTORNEY"),
       Organizations |-> Str("google;bleichmar fonti auld;news network;securities exchange;tesla inc;u s district court;reddit inc;why bleichmar fonti auld"),
       V2Tone |-> Str("-2.43111831442464,1.45867098865478,3.88978930307942,5.3484602917342,17.5040518638574,0.972447325769854"),
       SourceCollectionIdentifier |-> Str("pr-inside.com"),
       DocumentIdentifier |-> Str("https://www.pr-inside.com/rddt-class-action-alert-reddit-inc-shareholders-with-losses-are-r5117393.htm")],
      [SQLDATE |-> Num(1),
       V2Themes |-> Str("LEGISLATION;EPU_POLICY;EPU_POLICY_LAW;WB_845_LEGAL_AND_REGULATORY_FRAMEWORK;WB_696_PUBLIC_SECTOR_MANAGEMENT;WB_969_CAPITAL_MARKETS_LAW_AND_REGULATION;WB_853_FINANCIAL_LAWS_AND_REGULATIONS;TRIAL;TAX_FNCACT;TAX_FNCACT_EXECUTIVES;APPOINTMENT;CORRUPTION;WB_2019_ANTI_CORRUPTION_LEGISLATION;WB_831_GOVERNANCE;WB_832_ANTI_CORRUPTION;WB_2020_BRIBERY_FRAUD_AND_COLLUSION;TAX_FNCACT_ASSISTANT;SOC_EMERGINGTECH;ECON_STOCKMARKET;DELAY;USPEC_UNCERTAINTY1;TAX_ECON_PRICE;WB_698_TRADE;TAX_FNCACT_DEVELOPER;WB_678_DIGITAL_GOVERNMENT;WB_694_BROADCAST_AND_MEDIA;WB_133_INFORMATION_AND_COMMUNICATION_TECHNOLOGIES;WB_962_INTERNATIONAL_LAW;TAX_FNCACT_ATTORNEYS;TAX_FNCACT_DIRECTORS;WB_1331_HEALTH_TECHNOLOGIES;WB_1350_PHARMACEUTICALS;WB_621_HEALTH_NUTRITION_AND_POPULATION;TAX_FNCACT_ATTORNEY"),
       Organizations |-> Str("cnn;nasdaq;bleichmar fonti auld;news network;securities exchange;u s district court;tesla inc;why bleichmar fonti auld;apple inc"),
       V2Tone |-> Str("-1.81268882175227,1.96374622356495,3.77643504531722,5.74018126888217,16.4652567975831,0.906344410876133"),
       SourceCollectionIdentifier |-> Str("pr-inside.com"),
       DocumentIdentifier |-> Str("https://www.pr-inside.com/aapl-class-action-alert-apple-inc-shareholders-with-losses-are-notified-r5117385.htm")],
      [SQLDATE |-> Num(1),
       V2Themes |-> Str("ECON_STOCKMARKET;TAX_ETHNICITY;TAX_ETHNICITY_CHINESE;TAX_WORLDLANGUAGES;TAX_WORLDLANGUAGES_CHINESE"),
       Organizations |-> Str("tesla service center"),
       V2Tone |-> Str("2.89855072463768,7.2463768115942,4.34782608695652,11.5942028985507,17.3913043478261,0"),
       SourceCollectionIdentifier |-> Str("seekingalpha.com"),
       DocumentIdentifier |-> Str("https://seekingalpha.com/news/4464601-tesla-breaks-8-month-china-sales-slump")],
      [SQLDATE |-> Num(1),
       V2Themes |-> Str("ECON_STOCKMARKET;LEADER;TAX_FNCACT;TAX_FNCACT_PRESIDENT;USPEC_POLITICS_GENERAL1;TAX_ECON_PRICE;TAX_FNCACT_PERFORMER;TAX_FNCACT_MANUFACTURER;WB_698_TRADE;NATURAL_DISASTER;NATURAL_DISASTER_FLOOD"),
       Organizations |-> Str("apple inc;nvidia;goldman sachs;alphabet inc class;nasdaq;microsoft;microsoft corp;meta platforms inc;tesla inc"),
       V2Tone |-> Str("1.38648180242634,2.77296360485269,1.38648180242634,4.15944540727903,16.1178509532062,4.15944540727903"),
       SourceCollectionIdentifier |-> Str("fool.com.au"),
       DocumentIdentifier |-> Str("https://www.fool.com.au/2025/07/03/how-did-the-us-magnificent-seven-stocks-perform-in-fy25/")],
      [SQLDATE |-> Num(1),
       V2Themes |-> Str("TAX_POLITICAL_PARTY;TAX_POLITICAL_PARTY_LIBERTARIAN;USPEC_POLITICS_GENERAL1;TAX_FNCACT;TAX_FNCACT_CEO;TAX_POLITICAL_PARTY_LIBERTARIAN_PARTY;TAX_FNCACT_POLITICO;TAX_DISEASE;TAX_DISEASE_DISRUPTIVE;ELECTION;USPEC_POLICY1;EPU_POLICY;EPU_POLICY_BUDGET;TAX_POLITICAL_PARTY_REPUBLICAN;EPU_POLICY_POLITICAL;WB_926_POLITICAL_PARTICIPATION;WB_615_GENDER;WB_924_VOICE_AND_AGENCY;LEADER;TAX_FNCACT_PRESIDENT;EPU_POLICY_SPENDING;LEGISLATION;UNGP_FORESTS_RIVERS_OCEANS;ARMEDCONFLICT;TAX_FNCACT_LEADER"),
       Organizations |-> Str("tesla inc;america party;libertarian party;libertarian national committee"),
       V2Tone |-> Str("2.05655526992288,5.1413881748072,3.08483290488432,8.22622107969152,21.0796915167095,0"),
       SourceCollectionIdentifier |-> Str("benzinga.com"),
       DocumentIdentifier |-> Str("https://www.benzinga.com/news/politics/25/07/46239662/elon-musk-receives-invitation-to-join-libertarian-party-making-a-new-third-party-would-be-a-mistake")],
      [SQLDATE |-> Num(1),
       V2Themes |-> Str("LEGISLATION;EPU_POLICY;EPU_POLICY_LAW;WB_845_LEGAL_AND_REGULATORY_FRAMEWORK;WB_696_PUBLIC_SECTOR_MANAGEMENT;WB_969_CAPITAL_MARKETS_LAW_AND_REGULATION;WB_853_FINANCIAL_LAWS_AND_REGULATIONS;TRIAL;GENERAL_HEALTH;MEDICAL;TAX_FNCACT;TAX_FNCACT_EXECUTIVES;APPOINTMENT;CORRUPTION;WB_2019_ANTI_CORRUPTION_LEGISLATION;WB_831_GOVERNANCE;WB_832_ANTI_CORRUPTION;WB_2020_BRIBERY_FRAUD_AND_COLLUSION;TAX_DISEASE;TAX_DISEASE_WEIGHT_LOSS;WB_1331_HEALTH_TECHNOLOGIES;WB_2453_ORGANIZED_CRIME;WB_1350_PHARMACEUTICALS;WB_2433_CONFLICT_AND_VIOLENCE;WB_621_HEALTH_NUTRITION_AND_POPULATION;WB_2432_FRAGILITY_CONFLICT_AND_VIOLENCE;WB_2456_DRUGS_AND_NARCOTICS;UNGP_FORESTS_RIVERS_OCEANS;EPU_CATS_HEALTHCARE;USPEC_POLICY1;ECON_STOCKMARKET;CRISISLEX_C03_WELLBEING_HEALTH;UNGP_CRIME_VIOLENCE;BAN;TAX_ECON_PRICE;WB_962_INTERNATIONAL_LAW;TAX_FNCACT_ATTORNEYS;TAX_FNCACT_DIRECTORS;TAX_FNCACT_ATTORNEY"),
       Organizations |-> Str("u s district court;news network;hims hers health inc;why bleichmar fonti auld;bleichmar fonti auld;securities exchange;novo nordisk;tesla inc"),
       V2Tone |-> Str("-1.39751552795031,2.79503105590062,4.19254658385093,6.98757763975155,15.6832298136646,0.93167701863354"),
       SourceCollectionIdentifier |-> Str("pr-inside.com"),
       DocumentIdentifier |-> Str("https://www.pr-inside.com/hims-class-action-alert-hims-hers-health-inc-shareholders-with-r5117390.htm")],
      [SQLDATE |-> Num(1),
       V2Themes |-> Str("LEGISLATION;EPU_POLICY;EPU_POLICY_LAW;WB_845_LEGAL_AND_REGULATORY_FRAMEWORK;WB_696_PUBLIC_SECTOR_MANAGEMENT;WB_969_CAPITAL_MARKETS_LAW_AND_REGULATION;WB_853_FINANCIAL_LAWS_AND_REGULATIONS;TRIAL;TAX_FNCACT;TAX_FNCACT_EXECUTIVES;APPOINTMENT;CORRUPTION;WB_2019_ANTI_CORRUPTION_LEGISLATION;WB_831_GOVERNANCE;WB_832_ANTI_CORRUPTION;WB_2020_BRIBERY_FRAUD_AND_COLLUSION;TAX_FNCACT_DESIGNER;TAX_FNCACT_MANUFACTURER;TAX_ECON_PRICE;ECON_STOCKMARKET;WB_2024_ANTI_CORRUPTION_AUTHORITIES;WB_840_JUSTICE;WB_2025_INVESTIGATION;WB_1014_CRIMINAL_JUSTICE;DELAY;USPEC_UNCERTAINTY1;TAX_FNCACT_FOUNDER;RESIGNATION;WB_2048_COMPENSATION_CAREERS_AND_INCENTIVES;WB_723_PUBLIC_ADMINISTRATION;WB_724_HUMAN_RESOURCES_FOR_PUBLIC_SECTOR;WB_962_INTERNATIONAL_LAW;TAX_FNCACT_ATTORNEYS;TAX_FNCACT_DIRECTORS;WB_1331_HEALTH_TECHNOLOGIES;WB_1350_PHARMACEUTICALS;WB_621_HEALTH_NUTRITION_AND_POPULATION;TAX_FNCACT_ATTORNEY"),
       Organizations |-> Str("bleichmar fonti auld;news network;compass group diversified holdings;compass group diversified holdings inc;compass diversified holdings;why bleichmar fonti auld;lugano holdings inc;securities exchange;tesla inc;u s district court"),
       V2Tone |-> Str("-2.1558872305141,1.32669983416252,3.48258706467662,4.80928689883914,20.7296849087894,1.16086235489221"),
       SourceCollectionIdentifier |-> Str("pr-inside.com"),
       DocumentIdentifier |-> Str("https://www.pr-inside.com/codi-class-action-alert-compass-diversified-holdings-shareholders-r5117386.htm")]
    >>

\* ------------------------------------------------------------------ state
VARIABLES
    now,              \* the date of the run: what date('now') is in the SQLite engine
    daily_avg,        \* the result of Query 1 of perform_sql_analysis
    gkg,              \* the GKG file at file_path of the filter script
    file,             \* the CSV file at data_path (NoFile when it is not there)
    df,               \* self.df
    df_clean,         \* self.df_clean
    original_size,    \* the original size clean_and_preprocess_data logs
    pc,               \* the stage run_pipeline is about to call
    raised,           \* the exception that left run_pipeline ("" when none)
    call,             \* a direct call of one method: its argument and its result
    daily_sentiment,  \* self.daily_sentiment
    category_totals,  \* the category totals perform_eda logs
    conn,             \* self.conn
    open_connections, \* the connections to the database file that are open
    db,               \* the tables of the SQLite file db_name
    status,           \* what each stage of this run logged when it ended
    summary,          \* what generate_executive_summary logged
    runs,             \* the runs of the pipeline started so far
    previous,         \* the aggregates and the log of the run before this one
    bi_file,          \* the file tesla_esg_cleaned_for_bi.csv
    stats_file,       \* the file tesla_esg_summary_stats.csv
    volatility        \* what perform_advanced_analytics logged of the monthly volatility

analysis == <<daily_sentiment, category_totals, summary>>

exports == <<bi_file, stats_file>>

storage == <<conn, open_connections, db>>

vars ==
    <<now, daily_avg, gkg, file, df, df_clean, original_size, pc, raised, call, analysis, storage, status, runs,
      previous, exports, volatility>>

NoCall == [fn |-> "", arg |-> <<>>, result |-> <<>>, returned |-> FALSE]

Stages ==
    <<"_load_data", "clean_and_preprocess_data", "perform_eda", "store_to_database",
      "perform_sql_analysis", "export_data_for_bi", "perform_advanced_analytics",
      "generate_executive_summary">>

NothingLogged == [stage \in Range(Stages) |-> ""]

NoSummary == [logged |-> "", total_articles |-> 0,
              recent_sentiment |-> Mean(<<>>), recent_30d_empty |-> FALSE,
          trend_direction |-> "",
              trend_magnitude |-> [num |-> 0, den |-> 0],
              category_totals |-> ZeroCounts, recommendations |-> <<>>]

\* nothing logged of the monthly volatility
NoVolatility == [logged |-> "", months |-> 0, highest |-> NoMonth, lowest |-> NoMonth]

\* a file that has not been written
NotWritten == [written |-> FALSE, columns |-> <<>>, rows |-> <<>>]

NoAggregates ==
    [daily_sentiment |-> EmptyFrame, category_totals |-> ZeroCounts, status |-> NothingLogged]

\* __init__ (lines 41-46), and run_pipeline about to call _load_data
Constructed ==
    /\ df = EmptyFrame
    /\ df_clean = EmptyFrame
    /\ daily_sentiment = EmptyFrame
    /\ conn = "None"
    /\ original_size = 0
    /\ category_totals = ZeroCounts
    /\ summary = NoSummary
    /\ volatility = NoVolatility
    /\ daily_avg = NotQueried
    /\ status = NothingLogged
    /\ pc = "_load_data"
    /\ raised = ""

\* a first run on a machine with no database file yet
FirstRun ==
    /\ Constructed
    /\ open_connections = 0
    /\ db = EmptyDatabase
    /\ bi_file = NotWritten
    /\ stats_file = NotWritten
    /\ runs = 1
    /\ previous = NoAggregates

\* ------------------------------------------------------------------ stages
\* _load_data (lines 55-106)
_load_data(f) ==
    IF f.found THEN read_csv(f) ELSE read_csv(FileWith(sample_data))

LoadData ==
    /\ pc = "_load_data"
    /\ df' = _load_data(file)
    /\ pc' = "clean_and_preprocess_data"
    /\ status' = [status EXCEPT !["_load_data"] = IF file.found THEN "loaded" ELSE "sample data"]
    /\ UNCHANGED <<now, gkg, file, df_clean, original_size, raised, call, analysis, storage, daily_avg, runs, previous,
                   exports, volatility>>

Clean ==
    /\ pc = "clean_and_preprocess_data"
    /\ LET r == clean_and_preprocess_data(df)
       IN  /\ df' = r.df
           /\ df_clean' = r.df_clean
           /\ original_size' = r.original_size
           /\ raised' = r.raised
           /\ pc' = IF r.raised = "" THEN "perform_eda" ELSE "aborted"
           /\ status' = [status EXCEPT !["clean_and_preprocess_data"] =
                             IF r.raised = "" THEN "cleaned" ELSE ""]
    /\ UNCHANGED <<now, gkg, file, call, analysis, storage, daily_avg, runs, previous, exports, volatility>>

\* perform_eda (lines 232-364); the charts it draws are not part of the state
\* an analysis stage after which the run goes on to the SQL analysis, past the
\* storage stage
PerformEdaThenSql ==
    /\ pc = "perform_eda"
    /\ daily_sentiment' = DailySentiment(df_clean)
    /\ category_totals' = CategoryTotals(df_clean.rows)
    /\ status' = [status EXCEPT !["perform_eda"] = "analysed"]
    /\ pc' = "perform_sql_analysis"
    /\ UNCHANGED <<now, gkg, file, df, df_clean, original_size, raised, call, summary, storage, daily_avg, runs,
                   previous, exports, volatility>>

PerformEda ==
    /\ pc = "perform_eda"
    /\ daily_sentiment' = DailySentiment(df_clean)
    /\ category_totals' = CategoryTotals(df_clean.rows)
    /\ status' = [status EXCEPT !["perform_eda"] = "analysed"]
    /\ pc' = "store_to_database"
    /\ UNCHANGED <<now, gkg, file, df, df_clean, original_size, raised, call, summary, storage, daily_avg, runs,
                   previous, exports, volatility>>

\* store_to_database (lines 367-392), under each fault of the database
StoreToDatabase ==
    /\ pc = "store_to_database"
    /\ \E fault \in StoreFaults :
          LET r == store_to_database(db, df_clean, daily_sentiment, fault)
          IN  /\ db' = r.db
              /\ conn' = r.conn
              /\ open_connections' = open_connections + r.open
              /\ status' = [status EXCEPT !["store_to_database"] = r.logged]
              /\ raised' = r.raised
              /\ pc' = IF r.raised = "" THEN "perform_sql_analysis" ELSE "aborted"
    /\ UNCHANGED <<now, daily_avg, gkg, file, df, df_clean, original_size, call, analysis, runs,
                   previous, exports,
                   volatility>>

\* perform_sql_analysis (lines 394-486), under each fault of the database
PerformSqlAnalysis ==
    /\ pc = "perform_sql_analysis"
    /\ \E fault \in SqlFaults :
          LET r == perform_sql_analysis(db, fault, now)
          IN  /\ conn' = r.conn
              /\ open_connections' = open_connections + r.open
              /\ daily_avg' = r.daily_avg
              /\ status' = [status EXCEPT !["perform_sql_analysis"] = r.logged]
              /\ raised' = r.raised
              /\ pc' = IF r.raised = "" THEN "export_data_for_bi" ELSE "aborted"
    /\ UNCHANGED <<now, gkg, file, df, df_clean, original_size, call, analysis, db, runs,
                   previous, exports, volatility>>

\* export_data_for_bi (lines 488-562): the whole body is in a try block that
\* catches every Exception; with no cleaned row, min() of the dates is NaT and
\* its strftime (line 534) raises
ExportDataForBi ==
    /\ pc = "export_data_for_bi"
    /\ \E order \in DateOrders(df_clean.rows) :
          LET r == export_data_for_bi(df_clean, daily_sentiment, order, stats_file)
          IN  /\ bi_file' = r.bi_file
              /\ stats_file' = r.stats_file
              /\ status' = [status EXCEPT !["export_data_for_bi"] = r.logged]
    /\ pc' = "perform_advanced_analytics"
    /\ UNCHANGED <<now, gkg, file, df, df_clean, original_size, raised, call, analysis, storage, daily_avg, runs,
                   previous, volatility>>

\* perform_advanced_analytics (lines 564-618): line 584 adds a column to
\* self.df_clean; the rest is logged, and of it the monthly volatility is kept
PerformAdvancedAnalytics ==
    /\ pc = "perform_advanced_analytics"
    /\ df_clean' = WithColumn(df_clean, "sentiment_abs",
                       [i \in 1..len(df_clean) |-> Abs(df_clean.rows[i]["sentiment_score"])])
    /\ volatility' = VolatilityReport(df_clean)
    /\ status' = [status EXCEPT !["perform_advanced_analytics"] = "analysed"]
    /\ pc' = "generate_executive_summary"
    /\ UNCHANGED <<now, gkg, file, df, original_size, raised, call, analysis, storage, daily_avg, runs, previous,
                   exports>>

\* generate_executive_summary (lines 620-709), then line 732 of run_pipeline
GenerateExecutiveSummary ==
    /\ pc = "generate_executive_summary"
    /\ summary' = generate_executive_summary(df_clean)
    /\ status' = [status EXCEPT !["generate_executive_summary"] = "completed successfully"]
    /\ pc' = "done"
    /\ UNCHANGED <<now, gkg, file, df, df_clean, original_size, raised, call, daily_sentiment,
                   category_totals, storage, daily_avg, runs, previous, exports, volatility>>

\* the program is started again on the same file and the same database; the
\* process of the run before has ended, and its connections with it
RunAgain ==
    /\ pc \in {"done", "aborted"}
    /\ runs < MaxRuns
    /\ runs' = runs + 1
    /\ previous' = [daily_sentiment |-> daily_sentiment, category_totals |-> category_totals,
                    status |-> status]
    /\ df' = EmptyFrame
    /\ df_clean' = EmptyFrame
    /\ daily_sentiment' = EmptyFrame
    /\ conn' = "None"
    /\ open_connections' = 0
    /\ original_size' = 0
    /\ category_totals' = ZeroCounts
    /\ summary' = NoSummary
    /\ volatility' = NoVolatility
    /\ daily_avg' = NotQueried
    /\ status' = NothingLogged
    /\ pc' = "_load_data"
    /\ raised' = ""
    /\ UNCHANGED <<now, gkg, file, call, db, exports>>

\* ------------------------------------------------------------------ direct calls
CallExtractSentiment ==
    /\ call.fn = "_extract_sentiment"
    /\ ~call.returned
    /\ call' = [call EXCEPT !.result = _extract_sentiment(call.arg), !.returned = TRUE]
    /\ UNCHANGED <<now, gkg, file, df, df_clean, original_size, pc, raised, analysis, storage, daily_avg, status,
                   runs, previous, exports, volatility>>

CallCategorize ==
    /\ call.fn = "_categorize_esg_themes"
    /\ ~call.returned
    /\ call' = [call EXCEPT !.result = _categorize_esg_themes(call.arg), !.returned = TRUE]
    /\ UNCHANGED <<now, gkg, file, df, df_clean, original_size, pc, raised, analysis, storage, daily_avg, status,
                   runs, previous, exports, volatility>>

\* ------------------------------------------------------------------ inputs
\* the characters V2Tone texts are drawn from, and the texts
ToneChars == {"-", "1", "5", ".", ",", "a"}

RECURSIVE Texts(_, _)
Texts(chars, n) ==
    IF n = 0 THEN {""}
    ELSE LET shorter == Texts(chars, n - 1)
         IN  shorter \cup {t \o c : t \in shorter, c \in chars}

ToneArgs ==
    {Null, Num(NaN), Num(0), Num(0 - 2 * Scale), Num(15000), Num(PosInf)}
      \cup {Str(t) : t \in Texts(ToneChars, MaxToneLen)}
      \cup {Str("abc,1,2,3,4,5"), Str(" 1.5 ,a"), Str("-2.5,1,2,3,4,5"), Str("-2.5,9,9")}

\* theme tokens: one per category, tokens with keywords of two categories,
\* tokens with none
\* ------------------------------------------------------------------ filter script
\* Series.str.contains(pat, case=False, na=False) on one cell of an object
\* column: a null cell is False, a text is searched without regard to case
str_contains(cell, pat) ==
    IF isna(cell) THEN FALSE ELSE Contains(upper(pat), upper(cell[2]))

\* filter_tesla_data.py, lines 8-27: the file read, the rows that mention
\* TESLA in V2Themes or in Organizations kept, and the result written without
\* its index. The .str accessor exists on an object column only: on a column
\* read without any text (float64, every cell empty) it raises AttributeError.
filter_tesla_data(gkg_file) ==
    LET frame == read_csv(gkg_file)
        tesla_df == SelectSeq(frame.rows,
                        LAMBDA r : \/ str_contains(r["V2Themes"], "TESLA")
                                   \/ str_contains(r["Organizations"], "TESLA"))
    IN  IF dtype(frame, "V2Themes") # "object" \/ dtype(frame, "Organizations") # "object"
        THEN [raised |-> "AttributeError", written |-> FALSE, file |-> NoFile]
        ELSE [raised |-> "", written |-> TRUE,
              file |-> FileWith([i \in 1..Len(tesla_df) |->
                                   [c \in Range(RawColumns) |-> tesla_df[i][c]]])]

\* one run of the script: data/tesla_esg.csv is written unless the run raised
FilterTeslaData ==
    /\ pc = "filter_tesla_data"
    /\ LET r == filter_tesla_data(gkg)
       IN  /\ file' = IF r.written THEN r.file ELSE file
           /\ raised' = r.raised
           /\ pc' = IF r.raised = "" THEN "_load_data" ELSE "aborted"
    /\ UNCHANGED <<now, gkg, df, df_clean, original_size, call, analysis, storage, daily_avg, status, runs,
                   previous, exports, volatility>>

\* the records of the GKG files given to the script: themes and organisations
\* that mention Tesla in either case, that do not, and that are empty
GkgThemes == {Null, Str("TAX;TESLA"), Str("econ_Tesla"), Str("TESL;A"), Str("TAX")}

GkgOrganizations == {Null, Str("tesla inc"), Str("ford")}

GkgRecords ==
    {[RawRecord(Num(20250703), themes, Str("1,2,3"), "a.com")
         EXCEPT !.Organizations = organizations] :
        themes \in GkgThemes, organizations \in GkgOrganizations}

GkgFiles == {FileWith(rs) : rs \in SeqsUpTo(GkgRecords, MaxFilterRows) \ {<<>>}}

\* the direct call _extract_themes(call.arg)
CallExtractThemes ==
    /\ call.fn = "_extract_themes"
    /\ ~call.returned
    /\ call' = [call EXCEPT !.result = _extract_themes(call.arg), !.returned = TRUE]
    /\ UNCHANGED <<now, gkg, file, df, df_clean, original_size, pc, raised, analysis, storage, daily_avg, status,
                   runs, previous, exports, volatility>>

\* the cells of a V2Themes column passed to _extract_themes: a null, the texts
\* of themes, separators and blanks up to MaxThemeTextLen, and the text "A;B; ;C"
ThemeChars == {"A", "B", ";", " "}

ThemeCells ==
    {Null, Str("A;B; ;C")} \cup {Str(t) : t \in Texts(ThemeChars, MaxThemeTextLen)}

ThemeTokens ==
    {"LEGISLATION", "NATURAL_DISASTER_FLOOD", "MEDICAL", "ECON_STOCKMARKET",
     "SOC_EMERGINGTECH", "ELECTION", "MEDICAL_LEGISLATION", "ELECTION_TAX_ECON_PRICE",
     "WB_926_POLITICAL_PARTICIPATION", "LEADER", "TESLA", "LEGISLATIO"}

\* SQLDATE cells: two dates, an 8-digit number that is no date, the placeholder
\* of the sample data and a missing value
DateCells ==
    {Num(20250703), Num(20240229), Num(20251340), Num(1), Null}

ToneCells ==
    {Num(NegInf), Num(0 - 2 * Scale - 1), Num(0 - 2 * Scale), Num(0), Num(2 * Scale),
     Num(2 * Scale + 1), Null, Str("abc"), Str("-1.5,2,3")}

CleanRecords == {RawRecord(d, Null, t, "a.com") : d \in DateCells, t \in ToneCells}

CleanFiles ==
    {FileWith(rs) : rs \in SeqsUpTo(CleanRecords, MaxRows)}
      \cup {FileWithoutSqldate(rs) :
               rs \in SeqsUpTo({RawRecord(Null, Null, t, "a.com") : t \in ToneCells}, MaxRows)}
      \cup {NoFile}

\* the records the whole pipeline is run on: two of one day, one of a month
\* before, one with no themes, two the cleaner drops, and one with no
\* DocumentIdentifier
PipelineRecords ==
    {RawRecord(Num(20250703), Str("LEGISLATION;ECON_STOCKMARKET;TAX_ECON_PRICE"),
               Str("-.5,1,2"), "a.com"),
     RawRecord(Num(20250703), Str("ELECTION; ;SOC_EMERGINGTECH"), Str("1,2,3"), "b.com"),
     RawRecord(Num(20250601), Str("MEDICAL_LEGISLATION;NATURAL_DISASTER;LEADER"),
               Str(".25"), "a.com"),
     RawRecord(Num(20250704), Null, Num(0 - 2 * Scale), "b.com"),
     RawRecord(Num(20250704), Str("CORRUPTION"), Null, "a.com"),
     RawRecord(Num(20251340), Str("MEDICAL"), Str("-1,0"), "b.com"),
     [RawRecord(Num(20250704), Str("TESLA"), Str(".5,1"), "c.com")
         EXCEPT !.DocumentIdentifier = Null]}

\* the date of the runs whose clock is not varied
RunDate == DaysFromCivil(2025, 7, 5)

\* the dates of the runs of the SQL analysis: the latest date of the records,
\* the day after it, and a day more than 30 days after it
RunDates == {DaysFromCivil(2025, 7, 4), DaysFromCivil(2025, 7, 5), DaysFromCivil(2025, 8, 10)}

\* the records of those runs: one of 30 days before the latest date and two
\* of the last two days
SqlRecords ==
    {RawRecord(Num(20250604), Str("LEGISLATION"), Str(".25"), "a.com"),
     RawRecord(Num(20250703), Str("MEDICAL"), Str("1,2,3"), "b.com"),
     RawRecord(Num(20250704), Str("ELECTION"), Str("-.5,1,2"), "a.com")}

SqlFiles == {FileWith(rs) : rs \in SeqsUpTo(SqlRecords, MaxSqlRows)}

\* the records of the runs that report the monthly volatility: two of June
\* 2025 and two of July 2025, the scores of each month 0.75 apart
VolatilityRecords ==
    {RawRecord(Num(20250601), Str("LEGISLATION"), Str(".25"), "a.com"),
     RawRecord(Num(20250615), Str("MEDICAL"), Str("1,2,3"), "b.com"),
     RawRecord(Num(20250703), Str("ELECTION"), Str("-.5,1,2"), "a.com"),
     RawRecord(Num(20250704), Null, Str(".25"), "b.com")}

VolatilityFiles == {FileWith(rs) : rs \in SeqsUpTo(VolatilityRecords, MaxVolRows)}

PipelineFiles == {FileWith(rs) : rs \in SeqsUpTo(PipelineRecords, MaxPipeRows)} \cup {NoFile}

\* ------------------------------------------------------------------ specifications
\* the pipeline, run and run again on every file under every fault
Init ==
    /\ now = RunDate
    /\ gkg = NoFile
    /\ file \in PipelineFiles
    /\ FirstRun
    /\ call = NoCall

Next ==
    \/ LoadData
    \/ Clean
    \/ PerformEda
    \/ StoreToDatabase
    \/ PerformSqlAnalysis
    \/ ExportDataForBi
    \/ PerformAdvancedAnalytics
    \/ GenerateExecutiveSummary
    \/ RunAgain

Spec == Init /\ [][Next]_vars

\* the tone parser, called on every argument
InitTone ==
    /\ now = RunDate
    /\ gkg = NoFile
    /\ file = NoFile
    /\ FirstRun
    /\ call \in {[fn |-> "_extract_sentiment", arg |-> a, result |-> <<>>, returned |-> FALSE] :
                    a \in ToneArgs}

SpecTone == InitTone /\ [][CallExtractSentiment]_vars

\* the categorizer, called on every list of tokens
InitThemes ==
    /\ now = RunDate
    /\ gkg = NoFile
    /\ file = NoFile
    /\ FirstRun
    /\ call \in {[fn |-> "_categorize_esg_themes", arg |-> a, result |-> <<>>, returned |-> FALSE] :
                    a \in SeqsUpTo(ThemeTokens, MaxThemes)}

SpecThemes == InitThemes /\ [][CallCategorize]_vars

\* one run of the pipeline over a file of the volatility records
InitVolatility ==
    /\ now = RunDate
    /\ gkg = NoFile
    /\ file \in VolatilityFiles
    /\ FirstRun
    /\ call = NoCall

NextVolatility ==
    \/ LoadData
    \/ Clean
    \/ PerformEda
    \/ StoreToDatabase
    \/ PerformSqlAnalysis
    \/ ExportDataForBi
    \/ PerformAdvancedAnalytics
    \/ GenerateExecutiveSummary

SpecVolatility == InitVolatility /\ [][NextVolatility]_vars

\* one run of the pipeline over a file of the SQL records, on any of the run dates
InitSql ==
    /\ now \in RunDates
    /\ gkg = NoFile
    /\ file \in SqlFiles
    /\ FirstRun
    /\ call = NoCall

SpecSql == InitSql /\ [][NextVolatility]_vars

\* the filter script run on a GKG file, before any analysis
InitFilter ==
    /\ now = RunDate
    /\ daily_avg = NotQueried
    /\ gkg \in GkgFiles
    /\ file = NoFile
    /\ df = EmptyFrame
    /\ df_clean = EmptyFrame
    /\ daily_sentiment = EmptyFrame
    /\ conn = "None"
    /\ original_size = 0
    /\ category_totals = ZeroCounts
    /\ summary = NoSummary
    /\ volatility = NoVolatility
    /\ status = NothingLogged
    /\ pc = "filter_tesla_data"
    /\ raised = ""
    /\ open_connections = 0
    /\ db = EmptyDatabase
    /\ bi_file = NotWritten
    /\ stats_file = NotWritten
    /\ runs = 1
    /\ previous = NoAggregates
    /\ call = NoCall

SpecFilter == InitFilter /\ [][FilterTeslaData]_vars

InitExtractThemes ==
    /\ now = RunDate
    /\ gkg = NoFile
    /\ file = NoFile
    /\ FirstRun
    /\ call \in {[fn |-> "_extract_themes", arg |-> a, result |-> <<>>, returned |-> FALSE] :
                    a \in ThemeCells}

SpecExtractThemes == InitExtractThemes /\ [][CallExtractThemes]_vars

\* the record cleaner, run on every file
InitClean ==
    /\ now = RunDate
    /\ gkg = NoFile
    /\ file \in CleanFiles
    /\ FirstRun
    /\ call = NoCall

NextClean == LoadData \/ Clean

SpecClean == InitClean /\ [][NextClean]_vars

\* the first three stages of a run over the files of the cleaner
NextEda == LoadData \/ Clean \/ PerformEda

SpecEda == InitClean /\ [][NextEda]_vars

\* ================================================================== claims
CleanReturned == pc = "perform_eda"

\* ------------------------------------------------------------------ C1
\* C1 as claimed: every cleaned record has the category of its score by
\* score < -2 Very Negative; -2 <= score <= 0 Negative; 0 < score <= 2
\* Positive; score > 2 Very Positive.
C1_ThresholdsAsClaimed ==
    CleanReturned =>
        \A i \in 1..len(df_clean) :
            LET score == df_clean.rows[i]["sentiment_score"]
                category == df_clean.rows[i]["sentiment_category"]
            IN  /\ score < (0 - 2) * Scale => category = "Very Negative"
                /\ ((0 - 2) * Scale <= score /\ score <= 0) => category = "Negative"
                /\ (0 < score /\ score <= 2 * Scale) => category = "Positive"
                /\ score > 2 * Scale => category = "Very Positive"

\* C1 as amended: every cleaned record with a finite score has the category
\* score <= -2 Very Negative; -2 < score <= 0 Negative; 0 < score <= 2
\* Positive; score > 2 Very Positive (+inf included); a score of -inf has no
\* category.
C1_Thresholds ==
    CleanReturned =>
        \A i \in 1..len(df_clean) :
            LET score == df_clean.rows[i]["sentiment_score"]
                category == df_clean.rows[i]["sentiment_category"]
            IN  /\ score = NegInf => category = NoLabel
                /\ (NegInf < score /\ score <= (0 - 2) * Scale) => category = "Very Negative"
                /\ ((0 - 2) * Scale < score /\ score <= 0) => category = "Negative"
                /\ (0 < score /\ score <= 2 * Scale) => category = "Positive"
                /\ score > 2 * Scale => category = "Very Positive"

\* a cleaned set holding a record of score exactly -2 and one of score 2.0001
C1_Witness ==
    /\ CleanReturned
    /\ \E i \in 1..len(df_clean) : df_clean.rows[i]["sentiment_score"] = (0 - 2) * Scale
    /\ \E i \in 1..len(df_clean) : df_clean.rows[i]["sentiment_score"] = 2 * Scale + 1

\* ------------------------------------------------------------------ C2
\* the category that owns a token: the first one, in declared order, with a
\* keyword that occurs in the token ("" when no category has one)
C2_Owner(theme) ==
    IF \E c \in CategorySet : AnyKeywordIn(c, theme)
    THEN Categories[CHOOSE i \in 1..Len(Categories) :
                        /\ AnyKeywordIn(Categories[i], theme)
                        /\ \A j \in 1..(i - 1) : ~AnyKeywordIn(Categories[j], theme)]
    ELSE ""

\* C2: _categorize_esg_themes counts each token once, for the first category
\* in declared order with a keyword in it, and not at all when no category has
\* one: every count is the number of tokens the category owns, the six counts
\* sum to at most the number of tokens, and ["LEGISLATION"] gives Governance 1
\* and 0 elsewhere.
C2_FirstMatchWins ==
    (call.fn = "_categorize_esg_themes" /\ call.returned) =>
        /\ DOMAIN call.result = CategorySet
        /\ \A c \in CategorySet :
               call.result[c] = Cardinality({i \in 1..Len(call.arg) : C2_Owner(call.arg[i]) = c})
        /\ SumCounts(call.result) <= Len(call.arg)
        /\ SumCounts(call.result)
             = Cardinality({i \in 1..Len(call.arg) : C2_Owner(call.arg[i]) # ""})
        /\ call.arg = <<"LEGISLATION">> =>
               call.result = [c \in CategorySet |-> IF c = "Governance" THEN 1 ELSE 0]

\* a token with keywords of two categories (Social, Governance) and a token
\* with none have been counted: Social 1, everything else 0
C2_Witness ==
    /\ call.fn = "_categorize_esg_themes"
    /\ call.returned
    /\ call.arg = <<"MEDICAL_LEGISLATION", "TESLA">>
    /\ call.result = [c \in CategorySet |-> IF c = "Social" THEN 1 ELSE 0]

\* ------------------------------------------------------------------ C3
\* the text before the first comma
C3_FirstField(text) ==
    LET n == Cardinality({k \in 1..Len(text) : \A j \in 1..k : CharAt(text, j) # ","})
    IN  SubSeq(text, 1, n)

\* C3: _extract_sentiment returns a float for every input (it has a value on
\* every argument, and the result of the call is a float): Missing for a null, the number
\* itself for a number, and for a text the first comma-separated field as a
\* float when that field is non-empty and numeric, Missing otherwise; the
\* result is that of the first field alone.
C3_ParseTone ==
    /\ (call.fn = "_extract_sentiment" /\ ~call.returned) => _extract_sentiment(call.arg) \in Int
    /\ (call.fn = "_extract_sentiment" /\ call.returned) =>
            /\ call.result \in Int
            /\ call.arg = Null => call.result = NaN
            /\ call.arg[1] = "num" => call.result = call.arg[2]
            /\ call.arg[1] = "str" =>
                   LET field == C3_FirstField(call.arg[2])
                   IN  /\ (field = "" \/ float(field).raised # "") => call.result = NaN
                       /\ (field # "" /\ float(field).raised = "") =>
                              call.result = float(field).value
                       /\ call.result = _extract_sentiment(Str(field))
            /\ call.arg \in {Str(""), Null, Str("abc,1,2,3,4,5")} => call.result = NaN

\* a six-field text was parsed to its first field, -2.5
C3_Witness ==
    /\ call.fn = "_extract_sentiment"
    /\ call.returned
    /\ call.arg = Str("-2.5,1,2,3,4,5")
    /\ call.result = 0 - 25000

\* ------------------------------------------------------------------ C4
\* the positions of the raw rows whose parsed score and parsed date are both
\* present
C4_Complete ==
    {i \in 1..len(df) : df.rows[i]["sentiment_score"] # NaN /\ df.rows[i]["date"] # NaT}

\* C4: the cleaned set holds exactly the raw rows whose parsed score and parsed
\* date are both present, in input order and with their parsed values
\* unchanged, and original count - cleaned count is the number of rows with a
\* Missing score or date.
C4_DropMissing ==
    pc \in {"perform_eda", "aborted"} =>
        /\ original_size = Len(_load_data(file).rows)
        /\ len(df) = original_size
        /\ {df_clean.rows[k]["index"] : k \in 1..len(df_clean)}
             = {df.rows[i]["index"] : i \in C4_Complete}
        /\ \A k \in 1..(len(df_clean) - 1) :
               df_clean.rows[k]["index"] < df_clean.rows[k + 1]["index"]
        /\ \A k \in 1..len(df_clean) :
               \E i \in C4_Complete :
                   \A c \in DOMAIN df.rows[i] : df_clean.rows[k][c] = df.rows[i][c]
        /\ original_size - len(df_clean) = Cardinality((1..len(df)) \ C4_Complete)

\* of two rows, the first has an unparseable date and a good score and is
\* dropped, the second is kept
C4_Witness ==
    /\ CleanReturned
    /\ len(df) = 2
    /\ SqldateIsYmd(df)
    /\ df.rows[1]["date"] = NaT
    /\ df.rows[1]["sentiment_score"] # NaN
    /\ len(df_clean) = 1
    /\ df_clean.rows[1]["index"] = 1

\* ------------------------------------------------------------------ C5
\* the calendar date a cell holds as YYYYMMDD, NaT when it holds none
C5_RealDate(cell) ==
    IF cell[1] = "num" /\ cell[2] >= 10000000 /\ cell[2] <= 99999999
    THEN LET y == cell[2] \div 10000
             m == (cell[2] \div 100) % 100
             d == cell[2] % 100
         IN  IF m \in 1..12 /\ d >= 1 /\ d <= DaysInMonth(y, m) /\ y >= 1678 /\ y <= 2261
             THEN DaysFromCivil(y, m, d) ELSE NaT
    ELSE NaT

\* C5 as claimed: when the file has the SQLDATE column, every row whose value
\* is no YYYYMMDD date has a Missing date, wherever it stands, and every other
\* row has the date of its own value.
C5_BadDatesAreMissing ==
    (CleanReturned /\ HasColumn(df, "SQLDATE")) =>
        \A i \in 1..len(df) : df.rows[i]["date"] = C5_RealDate(df.rows[i]["SQLDATE"])

\* ------------------------------------------------------------------ C6
\* the column as a whole is not one of 8-digit integers: it is absent, or it
\* holds a value that is no integer, or none of its values has 8 digits
C6_NotShaped ==
    \/ ~HasColumn(_load_data(file), "SQLDATE")
    \/ \E i \in 1..Len(_load_data(file).rows) : _load_data(file).rows[i]["SQLDATE"][1] # "num"
    \/ \A i \in 1..Len(_load_data(file).rows) :
           LET n == _load_data(file).rows[i]["SQLDATE"][2]
           IN  n < 10000000 \/ n > 99999999

C7_BlocksByTotal ==
    (pc = "done" /\ summary.logged = "summary") =>
        LET totals == summary.category_totals
            blocks == summary.recommendations
        IN  /\ \A c \in CategorySet : totals[c] > 0 <=> c \in Range(blocks)
            /\ \A i, j \in 1..Len(blocks) : i < j => totals[blocks[i]] >= totals[blocks[j]]

\* ------------------------------------------------------------------ C8
\* C8: no failure of the database ends the pipeline: once the storage stages
\* are reached, run_pipeline is never left by an exception.
C8_StorageFailuresCaught ==
    status["perform_eda"] = "analysed" => (pc # "aborted" /\ raised = "")

\* ------------------------------------------------------------------ C9
\* C9: the storage handle is scoped: whenever a stage starts or has ended,
\* by return or by an exception, self.conn is None and no connection to the
\* database is open.
C9_HandleScoped == conn = "None" /\ open_connections = 0

\* store_to_database was left by an exception after it had connected and
\* written tesla_esg; another run logged a failed write and went on
C9_Witness ==
    /\ runs = 2
    /\ pc = "aborted"
    /\ raised = "pandas.errors.DatabaseError"
    /\ status["store_to_database"] = ""
    /\ db.tesla_esg.exists
    /\ previous.status["store_to_database"] = "error logged"
    /\ previous.status["perform_sql_analysis"] = "queried"
    /\ conn = "None"
    /\ open_connections = 0

\* ------------------------------------------------------------------ C10
\* the cleaned frame of a run on the file, as store_to_database is given it
CleanedFrame == clean_and_preprocess_data(_load_data(file)).df_clean

C11_PureReductions ==
    [][(pc \in {"perform_eda", "export_data_for_bi", "perform_advanced_analytics",
                "generate_executive_summary"}) => df_clean' = df_clean]_vars

\* ------------------------------------------------------------------ C12
\* the scores of the cleaned records of a date
C12_ScoresOf(date) ==
    LET group == SelectSeq(df_clean.rows, LAMBDA r : r["date"] = date)
    IN  [i \in 1..Len(group) |-> group[i]["sentiment_score"]]

\* C12: perform_eda gives one daily aggregate per distinct date of the cleaned
\* records; its article_count is the number of cleaned records of that date
\* (the counts sum to the cleaned count), its avg_sentiment is the mean of
\* their scores, and its sentiment_std is undefined when the date has one
\* record.
C12_DailyAggregates ==
    status["perform_eda"] = "analysed" =>
        /\ {daily_sentiment.rows[k]["date"] : k \in 1..len(daily_sentiment)}
             = {df_clean.rows[i]["date"] : i \in 1..len(df_clean)}
        /\ len(daily_sentiment)
             = Cardinality({df_clean.rows[i]["date"] : i \in 1..len(df_clean)})
        /\ \A k \in 1..len(daily_sentiment) :
               LET row == daily_sentiment.rows[k]
                   scores == C12_ScoresOf(row["date"])
               IN  /\ row["article_count"] = Len(scores)
                   /\ row["avg_sentiment"] * Len(scores) = SumSeq(scores)
                   /\ Len(scores) = 1 => row["sentiment_std"] = NaN
        /\ SumSeq(ColumnValues(daily_sentiment, "article_count")) = len(df_clean)

\* ------------------------------------------------------------------ C13
\* the mean, as sum and number, of the scores of the exported rows up to
\* position p whose date is in the `days` days that end at the date of row p
C13_TrailingDays(p, days) ==
    LET window == {q \in 1..p : bi_file.rows[q]["date"] > bi_file.rows[p]["date"] - days}
        scores == [q \in 1..p |-> IF q \in window THEN bi_file.rows[q]["sentiment_score"] ELSE 0]
    IN  [sum |-> SumSeq(scores), count |-> Cardinality(window)]

\* C13: in the exported file the rows are in ascending order of date, and each
\* row's sentiment_7d_avg (sentiment_30d_avg) is the mean of the scores of the
\* trailing 7-day (30-day) window that ends at the row; it is never null and
\* the average of the first row is its own score.
C13_RollingAverages ==
    (status["export_data_for_bi"] = "exported") =>
        /\ \A p \in 1..(Len(bi_file.rows) - 1) :
               bi_file.rows[p]["date"] <= bi_file.rows[p + 1]["date"]
        /\ \A p \in 1..Len(bi_file.rows) :
               LET week == bi_file.rows[p]["sentiment_7d_avg"]
                   month == bi_file.rows[p]["sentiment_30d_avg"]
               IN  /\ week.count >= 1 /\ month.count >= 1
                   /\ week.sum * C13_TrailingDays(p, 7).count
                        = C13_TrailingDays(p, 7).sum * week.count
                   /\ month.sum * C13_TrailingDays(p, 30).count
                        = C13_TrailingDays(p, 30).sum * month.count
        /\ Len(bi_file.rows) >= 1 =>
               /\ bi_file.rows[1]["sentiment_7d_avg"].sum
                    = bi_file.rows[1]["sentiment_score"] * bi_file.rows[1]["sentiment_7d_avg"].count
               /\ bi_file.rows[1]["sentiment_30d_avg"].sum
                    = bi_file.rows[1]["sentiment_score"] * bi_file.rows[1]["sentiment_30d_avg"].count

\* ------------------------------------------------------------------ C14
\* the cleaned records dated within the 30 days before the latest date
C14_Recent ==
    LET latest == MaxOf({df_clean.rows[i]["date"] : i \in 1..len(df_clean)})
    IN  {i \in 1..len(df_clean) : latest - df_clean.rows[i]["date"] <= 30}

C14_RecentSum ==
    SumSeq([i \in 1..len(df_clean) |->
               IF i \in C14_Recent THEN df_clean.rows[i]["sentiment_score"] ELSE 0])

C14_AllSum == SumSeq([i \in 1..len(df_clean) |-> df_clean.rows[i]["sentiment_score"]])

\* C14: the recent mean of the summary is the mean of the scores of the records
\* within the trailing 30 days of the latest date; the trend is "improving"
\* exactly when that mean is strictly greater than the mean of all records and
\* "declining" otherwise, a tie included; the magnitude is the absolute
\* difference of the two means.
C14_Trend ==
    (summary.logged = "summary") =>
        LET n == len(df_clean)
            r == Cardinality(C14_Recent)
        IN  /\ r >= 1
            /\ summary.recent_sentiment.count > 0
            /\ summary.recent_sentiment.sum * r = C14_RecentSum * summary.recent_sentiment.count
            /\ summary.trend_direction \in {"improving", "declining"}
            /\ summary.trend_direction = "improving" <=> C14_RecentSum * n > C14_AllSum * r
            /\ summary.trend_magnitude.den > 0
            /\ summary.trend_magnitude.num * (r * n)
                 = Abs(C14_RecentSum * n - C14_AllSum * r) * summary.trend_magnitude.den

\* a summary of records of different scores whose recent mean equals the
\* overall mean, reported as declining by 0
C14_Witness ==
    /\ summary.logged = "summary"
    /\ len(df_clean) = 2
    /\ df_clean.rows[1]["sentiment_score"] # df_clean.rows[2]["sentiment_score"]
    /\ C14_RecentSum * len(df_clean) = C14_AllSum * Cardinality(C14_Recent)
    /\ summary.trend_direction = "declining"
    /\ summary.trend_magnitude.num = 0

\* a summary whose recent mean is above the overall mean, reported as improving
C14_Improving ==
    /\ summary.logged = "summary"
    /\ Cardinality(C14_Recent) < len(df_clean)
    /\ summary.trend_direction = "improving"
    /\ summary.trend_magnitude.num > 0

\* ------------------------------------------------------------------ C15
\* C15: when the cleaned dataset is empty the summary stage logs that no data
\* is available and nothing else: no article count, no trend, no category
\* totals, no recommendation, and it raises nothing.
C15_EmptySummary ==
    (pc = "done" /\ len(df_clean) = 0) =>
        /\ summary.logged = "No data available"
        /\ summary.total_articles = 0
        /\ summary.recent_sentiment.count = 0
        /\ summary.trend_direction = ""
        /\ summary.trend_magnitude.den = 0
        /\ summary.category_totals = ZeroCounts
        /\ summary.recommendations = <<>>
        /\ raised = ""
        /\ status["generate_executive_summary"] = "completed successfully"

\* a run over a file of records that are all dropped has reached its end
C15_Witness ==
    /\ pc = "done"
    /\ len(df) > 0
    /\ len(df_clean) = 0
    /\ summary.logged = "No data available"

\* ------------------------------------------------------------------ C16
\* C16: once the cleaner has left zero rows, every later stage produces a
\* defined empty result: no error comes out of a stage for the lack of rows
\* (a storage failure aside), the export stage completes with both of its
\* files instead of logging an error, and the run goes on to the summary.
C16_EmptyIsDefined ==
    (pc \notin {"_load_data", "clean_and_preprocess_data"} /\ len(df_clean) = 0) =>
        /\ raised \in {"", "pandas.errors.DatabaseError"}
        /\ status["perform_eda"] # "" => daily_sentiment = [columns |-> DailyColumns, rows |-> <<>>]
        /\ status["export_data_for_bi"] \in {"", "exported"}
        /\ status["perform_advanced_analytics"] # "" =>
               volatility.logged = "No monthly volatility data available"
        /\ (pc = "aborted") => raised = "pandas.errors.DatabaseError"

\* ------------------------------------------------------------------ C17
\* the order of the stages of a run, and its end
C17_Order ==
    <<"_load_data", "clean_and_preprocess_data", "perform_eda", "store_to_database",
      "perform_sql_analysis", "export_data_for_bi", "perform_advanced_analytics",
      "generate_executive_summary", "done">>

\* before stage k has run, stage k and the stages after it have logged nothing
\* and their outputs are as the constructor left them; the stages before k
\* have all finished
C17_Produced ==
    \A k \in 1..9 :
        (pc = C17_Order[k]) =>
            /\ \A j \in 1..8 : (j < k) <=> (status[C17_Order[j]] # "")
            /\ (k <= 1) => df = EmptyFrame
            /\ (k <= 2) => df_clean = EmptyFrame /\ original_size = 0
            /\ (k <= 3) => daily_sentiment = EmptyFrame /\ category_totals = ZeroCounts
            /\ (k <= 4 /\ runs = 1) => db = EmptyDatabase
            /\ (k <= 4) => conn = "None"
            /\ (k <= 6 /\ runs = 1) => bi_file = NotWritten /\ stats_file = NotWritten
            /\ (k <= 7) => volatility = NoVolatility /\ ~HasColumn(df_clean, "sentiment_abs")
            /\ (k <= 8) => summary = NoSummary

\* a step of a run goes from a stage to the next stage of the order, or ends
\* the run with the exception the stage raised; a new run starts at the load
C17_Step ==
    \/ \E k \in 1..8 : pc = C17_Order[k] /\ pc' \in {C17_Order[k + 1], "aborted"}
    \/ pc \in {"done", "aborted"} /\ pc' = "_load_data"

\* C17: the stages of run_pipeline run one after another in the order load,
\* clean, EDA, store, SQL analysis, BI export, advanced analytics, executive
\* summary; a stage starts only when all the stages before it have finished,
\* and no output of a stage exists before that stage has run.
C17_StageOrder == [](C17_Produced) /\ [][C17_Step]_vars

\* a run in which all eight stages have finished, with the tables stored, the
\* files written and the summary logged
C17_Witness ==
    /\ pc = "done"
    /\ \A j \in 1..8 : status[C17_Order[j]] # ""
    /\ len(df_clean) > 0
    /\ len(daily_sentiment) > 0
    /\ db # EmptyDatabase
    /\ bi_file.written /\ stats_file.written
    /\ volatility # NoVolatility
    /\ summary.logged = "summary"

\* ------------------------------------------------------------------ C18
\* the positions after which a piece of the text begins: 0 and the positions
\* of the separators
C18_Starts(text) == {0} \cup {i \in 1..Len(text) : CharAt(text, i) = ";"}

\* the position of the separator that ends the piece beginning after a, or
\* one past the end of the text
C18_End(text, a) ==
    LET later == {i \in (a + 1)..Len(text) : CharAt(text, i) = ";"}
    IN  IF later = {} THEN Len(text) + 1 ELSE CHOOSE i \in later : \A j \in later : i <= j

\* the positions of the characters of that piece that are not whitespace
C18_Solid(text, a) ==
    {i \in (a + 1)..(C18_End(text, a) - 1) : CharAt(text, i) \notin Whitespace}

\* the starts of the pieces that have such a character
C18_Kept(text) == {a \in C18_Starts(text) : C18_Solid(text, a) # {}}

\* the piece beginning after a, from its first to its last such character
C18_Token(text, a) ==
    LET solid == C18_Solid(text, a)
        first == CHOOSE i \in solid : \A j \in solid : i <= j
        last == CHOOSE i \in solid : \A j \in solid : j <= i
    IN  SubSeq(text, first, last)

\* C18: _extract_themes returns the empty sequence for a null; for a text it
\* returns the pieces between the ';' separators, each trimmed of whitespace,
\* without the pieces that are empty or blank, in the order of the text and
\* with repeated pieces kept; every token is non-empty and neither begins nor
\* ends with whitespace. "A;B; ;C" gives <<"A", "B", "C">>.
C18_ExtractThemes ==
    (call.fn = "_extract_themes" /\ call.returned) =>
        /\ call.arg = Null => call.result = <<>>
        /\ call.arg # Null =>
               LET text == call.arg[2]
                   kept == C18_Kept(text)
               IN  /\ Len(call.result) = Cardinality(kept)
                   /\ \A a \in kept :
                          call.result[Cardinality({b \in kept : b <= a})] = C18_Token(text, a)
        /\ \A k \in 1..Len(call.result) :
               LET token == call.result[k]
               IN  /\ Len(token) > 0
                   /\ CharAt(token, 1) \notin Whitespace
                   /\ CharAt(token, Len(token)) \notin Whitespace
                   /\ \A i \in 1..Len(token) : CharAt(token, i) # ";"
        /\ call.arg = Str("A;B; ;C") => call.result = <<"A", "B", "C">>
        /\ call.arg = Str("A; A;B") => call.result = <<"A", "A", "B">>

\* the text "A;B; ;C" was split into its three themes
C18_Witness ==
    /\ call.fn = "_extract_themes"
    /\ call.returned
    /\ call.arg = Str("A;B; ;C")
    /\ call.result = <<"A", "B", "C">>

\* ------------------------------------------------------------------ C19
\* the month of a cleaned record, from its year and month columns
C19_MonthOf(i) == df_clean.rows[i]["year"] * 100 + df_clean.rows[i]["month"]

\* the months that have two records or more: those with a defined stddev
C19_Defined ==
    {m \in {C19_MonthOf(i) : i \in 1..len(df_clean)} :
        Cardinality({i \in 1..len(df_clean) : C19_MonthOf(i) = m}) >= 2}

\* the sample variance of the scores of a month, in hundredths, as a fraction:
\* the sum of (n x - sum)^2 over n^2 (n - 1)
C19_Variance(m) ==
    LET of == {i \in 1..len(df_clean) : C19_MonthOf(i) = m}
        n == Cardinality(of)
        x(i) == df_clean.rows[i]["sentiment_score"] \div (Scale \div 100)
        sum == SumSeq([i \in 1..len(df_clean) |-> IF i \in of THEN x(i) ELSE 0])
    IN  [num |-> SumSeq([i \in 1..len(df_clean) |->
                            IF i \in of THEN (n * x(i) - sum) * (n * x(i) - sum) ELSE 0]),
         den |-> n * n * (n - 1)]

C19_Smaller(a, b) ==
    C19_Variance(a).num * C19_Variance(b).den < C19_Variance(b).num * C19_Variance(a).den

\* C19: the month reported as the most volatile is a month with a defined
\* stddev, no month has a greater stddev, and every earlier month with a
\* defined stddev has a strictly smaller one, so of the months that tie it is
\* the first in chronological order; the same holds of the least volatile
\* month with smaller and greater exchanged; a month of a single record is
\* never reported, and when no month has a defined stddev none is.
C19_FirstOfTies ==
    (volatility.logged = "volatility") =>
        /\ C19_Defined = {} => volatility.highest = NoMonth /\ volatility.lowest = NoMonth
        /\ C19_Defined # {} =>
               /\ volatility.highest \in C19_Defined
               /\ volatility.lowest \in C19_Defined
               /\ \A m \in C19_Defined :
                      /\ ~C19_Smaller(volatility.highest, m)
                      /\ ~C19_Smaller(m, volatility.lowest)
                      /\ m < volatility.highest => C19_Smaller(m, volatility.highest)
                      /\ m < volatility.lowest => C19_Smaller(volatility.lowest, m)

\* June and July 2025 have the same stddev, not zero, the records of July
\* come first in the file, and June is reported as both the most and the least
\* volatile month
C19_Witness ==
    /\ volatility.logged = "volatility"
    /\ C19_Defined = {202506, 202507}
    /\ ~C19_Smaller(202506, 202507) /\ ~C19_Smaller(202507, 202506)
    /\ C19_Variance(202506).num > 0
    /\ C19_MonthOf(1) = 202507
    /\ volatility.highest = 202506
    /\ volatility.lowest = 202506

\* a month of a single record stands before a month of two records, and the
\* later month is the one reported
C19_SingleRecordMonth ==
    /\ volatility.logged = "volatility"
    /\ C19_Defined = {202507}
    /\ \E i \in 1..len(df_clean) : C19_MonthOf(i) = 202506
    /\ volatility.highest = 202507
    /\ volatility.lowest = 202507

\* ------------------------------------------------------------------ C20
\* the text has the letters of TESLA, each in either case, one after another
C20_Mentions(cell) ==
    /\ cell[1] = "str"
    /\ \E p \in 1..Len(cell[2]) :
           \A k \in 1..5 : CharAt(cell[2], p + k - 1) \in {CharAt("TESLA", k), CharAt("tesla", k)}

\* the rows of the GKG file whose themes or organisations mention Tesla
C20_Kept ==
    {i \in 1..Len(gkg.records) :
        \/ C20_Mentions(gkg.records[i]["V2Themes"])
        \/ C20_Mentions(gkg.records[i]["Organizations"])}

\* C20: when the filter script has run, data/tesla_esg.csv holds exactly the
\* rows of the GKG file whose V2Themes or Organizations contains "TESLA" in
\* any case, a null field containing nothing, each row as it was read and the
\* rows in the order of the GKG file.
C20_FilterWrites ==
    (gkg.found /\ pc # "filter_tesla_data") =>
        /\ file.found
        /\ Len(file.records) = Cardinality(C20_Kept)
        /\ \A i \in C20_Kept :
               file.records[Cardinality({j \in C20_Kept : j <= i})] = gkg.records[i]

\* ------------------------------------------------------------------ C22
\* the latest date of the cleaned records
C22_MaxDate ==
    CHOOSE d \in {df_clean.rows[i]["date"] : i \in 1..len(df_clean)} :
        \A i \in 1..len(df_clean) : df_clean.rows[i]["date"] <= d

\* the cleaned records dated from max_date - 30 days to max_date, both ends
\* included
C22_Window ==
    {i \in 1..len(df_clean) :
        /\ C22_MaxDate - 30 <= df_clean.rows[i]["date"]
        /\ df_clean.rows[i]["date"] <= C22_MaxDate}

\* C22: in a summary of a non-empty cleaned dataset the recent window holds
\* every record of the latest date, so it is never empty and the recent mean
\* is never replaced by the overall mean for want of recent records: the
\* recent mean is the mean of exactly the records of the window; and when the
\* window holds all the records the trend is "declining" with magnitude 0.
C22_WindowNeverEmpty ==
    (pc = "done" /\ len(df_clean) > 0) =>
        /\ summary.logged = "summary"
        /\ \A i \in 1..len(df_clean) :
               df_clean.rows[i]["date"] = C22_MaxDate => i \in C22_Window
        /\ C22_Window # {}
        /\ ~summary.recent_30d_empty
        /\ summary.recent_sentiment.count = Cardinality(C22_Window)
        /\ summary.recent_sentiment.sum
             = SumSeq([i \in 1..len(df_clean) |->
                          IF i \in C22_Window THEN df_clean.rows[i]["sentiment_score"] ELSE 0])
        /\ C22_Window = 1..len(df_clean) =>
               /\ summary.trend_direction = "declining"
               /\ summary.trend_magnitude.num = 0
               /\ summary.trend_magnitude.den > 0

\* a summary of two records of different dates and different scores, the
\* earlier within 30 days of the later: the window holds both, and the trend
\* is declining by 0
C22_Witness ==
    /\ pc = "done"
    /\ len(df_clean) = 2
    /\ df_clean.rows[1]["date"] # df_clean.rows[2]["date"]
    /\ df_clean.rows[1]["sentiment_score"] # df_clean.rows[2]["sentiment_score"]
    /\ C22_Window = {1, 2}
    /\ ~summary.recent_30d_empty
    /\ summary.recent_sentiment.count = 2
    /\ summary.trend_direction = "declining"
    /\ summary.trend_magnitude.num = 0

\* a summary whose window leaves a record out: the record is older than
\* max_date - 30 days
C22_OlderRecord ==
    /\ pc = "done"
    /\ len(df_clean) = 2
    /\ Cardinality(C22_Window) = 1
    /\ summary.recent_sentiment.count = 1

\* ------------------------------------------------------------------ C23
\* the number of characters of str(n) for the integers of an SQLDATE column: 8
\* for eight digits, and for a minus sign and seven digits
C23_EightCharacters(n) ==
    \/ n >= 10000000 /\ n <= 99999999
    \/ n <= 0 - 1000000 /\ n >= 0 - 9999999

\* the dates of the loaded frame are not parsed from SQLDATE but assigned in
\* sequence: the column is missing, or is not a column of integers only, or
\* its first value is not written with 8 characters
C23_Fallback ==
    LET loaded == _load_data(file)
    IN  \/ \A k \in 1..Len(loaded.columns) : loaded.columns[k] # "SQLDATE"
        \/ Len(loaded.rows) = 0
        \/ \E i \in 1..Len(loaded.rows) : loaded.rows[i]["SQLDATE"][1] # "num"
        \/ ~C23_EightCharacters(loaded.rows[1]["SQLDATE"][2])

\* C23: when the dates are assigned in sequence, the dates of the rows are
\* strictly increasing in the order of the input and so pairwise distinct, no
\* date is missing and the cleaned rows are exactly the rows with a score; once
\* the daily aggregates are computed there is one per cleaned row, each counts
\* at most one article and each has a null stddev.
C23_OneRecordPerDay ==
    (pc \notin {"_load_data", "clean_and_preprocess_data"} /\ C23_Fallback) =>
        /\ \A i \in 1..len(df) : \A j \in 1..len(df) :
               i < j => df.rows[i]["date"] < df.rows[j]["date"]
        /\ \A i \in 1..len(df) : df.rows[i]["date"] # NaT
        /\ len(df_clean) = Cardinality({i \in 1..len(df) : df.rows[i]["sentiment_score"] # NaN})
        /\ \A k \in 1..len(df_clean) :
               \E i \in 1..len(df) :
                   /\ df.rows[i]["index"] = df_clean.rows[k]["index"]
                   /\ df.rows[i]["date"] = df_clean.rows[k]["date"]
        /\ status["perform_eda"] # "" =>
               /\ len(daily_sentiment) = len(df_clean)
               /\ \A k \in 1..len(daily_sentiment) :
                      /\ daily_sentiment.rows[k]["article_count"] <= 1
                      /\ daily_sentiment.rows[k]["sentiment_std"] = NaN
                      /\ Cardinality({i \in 1..len(df_clean) :
                             df_clean.rows[i]["date"] = daily_sentiment.rows[k]["date"]}) = 1

\* a file of two rows whose SQLDATE holds a valid date and an empty cell: both
\* rows got sequential dates and stay, and the two daily aggregates count one
\* article each with a null stddev
C23_Witness ==
    /\ status["perform_eda"] # ""
    /\ C23_Fallback
    /\ file.found
    /\ len(df) = 2
    /\ HasColumn(df, "SQLDATE")
    /\ df.rows[1]["SQLDATE"] = Num(20250703)
    /\ df.rows[2]["SQLDATE"] = Null
    /\ len(df_clean) = 2
    /\ df_clean.rows[1]["date"] = DaysFromCivil(2024, 7, 1)
    /\ df_clean.rows[2]["date"] = DaysFromCivil(2024, 7, 2)
    /\ len(daily_sentiment) = 2
    /\ \A k \in 1..2 :
           /\ daily_sentiment.rows[k]["article_count"] = 1
           /\ daily_sentiment.rows[k]["sentiment_std"] = NaN

\* in the same mode the first of two rows is dropped for its score alone: the
\* row left keeps the second date of the sequence
C23_DroppedForScore ==
    /\ status["perform_eda"] # ""
    /\ C23_Fallback
    /\ len(df) = 2
    /\ len(df_clean) = 1
    /\ df_clean.rows[1]["date"] = DaysFromCivil(2024, 7, 2)
    /\ len(daily_sentiment) = 1

\* ------------------------------------------------------------------ C21
\* a run has stored its cleaned records, queried them and summarised them
C21_QueriedAndSummarised ==
    /\ pc = "done"
    /\ daily_avg.queried
    /\ summary.logged = "summary"
    /\ status["store_to_database"] = "stored"
    /\ db.tesla_esg.exists
    /\ Len(db.tesla_esg.rows) = len(df_clean)

\* the latest date of the cleaned records
C21_Latest ==
    CHOOSE d \in {df_clean.rows[i]["date"] : i \in 1..len(df_clean)} :
        \A i \in 1..len(df_clean) : df_clean.rows[i]["date"] <= d

\* the cleaned records dated 30 days before the given day or later
C21_Since(day) == {i \in 1..len(df_clean) : df_clean.rows[i]["date"] >= day - 30}

\* the two cut-offs are now - 30 days and max_date - 30 days; a record is
\* between them when it is on or after the earlier and before the later
C21_Between ==
    {i \in 1..len(df_clean) :
        \/ now - 30 <= df_clean.rows[i]["date"] /\ df_clean.rows[i]["date"] < C21_Latest - 30
        \/ C21_Latest - 30 <= df_clean.rows[i]["date"] /\ df_clean.rows[i]["date"] < now - 30}

\* C21 as stated: whenever the date of the run differs from the latest date of
\* the data, the rows Query 1 selects and the rows of the recent window of the
\* trend analysis are different sets.
C21_DisagreeWheneverDatesDiffer ==
    (C21_QueriedAndSummarised /\ now # C21_Latest) =>
        daily_avg.selected # C21_Since(C21_Latest)

\* C21 amended: Query 1 selects the rows dated now - 30 days or later, by the
\* clock of the storage engine, and the trend analysis the rows dated
\* max_date - 30 days or later, by the latest date of the data; the two sets
\* are different exactly when some row is dated between the two cut-offs, so
\* they are equal when the run date is the latest date, and can be equal when
\* it is not.
C21_DisagreeOnGap ==
    C21_QueriedAndSummarised =>
        /\ daily_avg.selected = C21_Since(now)
        /\ summary.recent_sentiment.count = Cardinality(C21_Since(C21_Latest))
        /\ (daily_avg.selected # C21_Since(C21_Latest)) <=> (C21_Between # {})
        /\ now = C21_Latest => daily_avg.selected = C21_Since(C21_Latest)
        /\ C21_Between # {} => now # C21_Latest

\* a run on the day after the latest date of its two records: the record of
\* 30 days before the latest date is in the recent window of the trend and is
\* not selected by Query 1, which selects the other
C21_Witness ==
    /\ C21_QueriedAndSummarised
    /\ now = C21_Latest + 1
    /\ len(df_clean) = 2
    /\ C21_Since(C21_Latest) = {1, 2}
    /\ Cardinality(daily_avg.selected) = 1
    /\ Len(daily_avg.rows) = 1
    /\ daily_avg.rows[1]["date"] = C21_Latest

\* a run on the day after the latest date of its records in which Query 1 and
\* the trend analysis select the same rows, all of them
C21_SameRowsOnAnotherDay ==
    /\ C21_QueriedAndSummarised
    /\ now = C21_Latest + 1
    /\ len(df_clean) = 2
    /\ daily_avg.selected = {1, 2}
    /\ C21_Since(C21_Latest) = {1, 2}

====
